---- MODULE Spec2Model ----
(***************************************************************************)
(* A model of the core of the rq columnar query engine: schemas and        *)
(* Schema::select, the in-memory data source and ScanExec, the logical     *)
(* expressions with their field resolution, the logical plans with their   *)
(* schemas, the query planner that lowers logical plans and expressions    *)
(* to physical ones, the execution of ProjectionExec and of the hash       *)
(* aggregate over a ScanExec, the order of logical expressions, the        *)
(* equality and hashing of scalar values, and the schemas of the physical  *)
(* operators.                                                              *)
(*                                                                         *)
(* A Rust panic (assert!, unwrap on Err, unreachable!, index out of range) *)
(* is the outcome "Panic"; an Err(..) value returned to the caller is the  *)
(* outcome "Err"; a normal return is "Ok".  Indices are 0-based as in the  *)
(* source, sequences are 1-based as in TLA+.                               *)
(***************************************************************************)
EXTENDS Integers, Sequences, FiniteSets, TLC

VARIABLES
    schema,     \* the data source's schema (MemoryDataSource.schema)
    data,       \* the data source's stored batches (MemoryDataSource.data)
    plan,       \* the logical plan at hand
    phys,       \* the physical operator at hand
    call,       \* the call in progress: operation, arguments and result
    iter,       \* the batch sequence returned by execute()/scan()
    emitted     \* the batches the caller has pulled from iter so far

vars == <<schema, data, plan, phys, call, iter, emitted>>

(***************************************************************************)
(* Bounds of the model.                                                    *)
(***************************************************************************)
MaxFields == 2      \* longest schema
MaxNames == 2       \* longest projection list / list of names
MaxBatches == 2     \* most stored batches
MaxRows == 2        \* most rows in a stored batch

(***************************************************************************)
(* Data types, fields and schemas (data_types/schema.rs).                  *)
(***************************************************************************)
DataType == {"Boolean", "Int32", "Int64", "Float32", "Float64", "Utf8"}

\* Field::new
Field(name, data_type) == [name |-> name, data_type |-> data_type]

\* names and types the bounded inputs are drawn from
FieldNames == {"a", "b"}
FieldTypes == {"Int32", "Utf8"}
ProjNames == FieldNames \cup {"z"}

RECURSIVE SeqsUpTo(_, _)
SeqsUpTo(S, n) ==
    IF n = 0 THEN {<<>>}
    ELSE LET shorter == SeqsUpTo(S, n - 1)
         IN  shorter \cup {Append(s, x) : s \in {t \in shorter : Len(t) = n - 1}, x \in S}

Fields == {Field(n, t) : n \in FieldNames, t \in FieldTypes}
\* Schema::new accepts any list of fields, repeated names included
Schemas == SeqsUpTo(Fields, MaxFields)
Projections == SeqsUpTo(ProjNames, MaxNames)

\* outcomes of a call returning a schema
OkSchema(fields) == [st |-> "Ok", schema |-> fields]
Panic == [st |-> "Panic"]
NoCall == [op |-> "none"]

\* self.fields.iter().filter(|f| f.name == name).collect()
Matching(s, name) == SelectSeq(s, LAMBDA f : f.name = name)

RECURSIVE select_any_from(_, _, _, _)
select_any_from(s, names, i, filterd_fields) ==
    IF i > Len(names) THEN OkSchema(filterd_fields)
    ELSE LET fields == Matching(s, names[i])
         IN  IF Len(fields) < 1 THEN Panic
             ELSE select_any_from(s, names, i + 1, Append(filterd_fields, fields[1]))

\* select with the assertion weakened to "at least one field matches"
select_any(s, names) == select_any_from(s, names, 1, <<>>)

\* select that keeps the matching fields in the order of the schema
select_schema_order(s, names) ==
    IF \E i \in 1..Len(names) : Len(Matching(s, names[i])) # 1 THEN Panic
    ELSE OkSchema(SelectSeq(s, LAMBDA f : \E i \in 1..Len(names) : names[i] = f.name))

\* the for_each loop of Schema::select: one step per name, in order
RECURSIVE select_from(_, _, _, _)
select_from(s, names, i, filterd_fields) ==
    IF i > Len(names) THEN OkSchema(filterd_fields)
    ELSE LET fields == Matching(s, names[i])
         IN  IF Len(fields) # 1 THEN Panic      \* assert!(fields.len() == 1)
             ELSE select_from(s, names, i + 1, Append(filterd_fields, fields[1]))

\* Schema::select
select(s, names) == select_from(s, names, 1, <<>>)

NamesOf(s) == [i \in 1..Len(s) |-> s[i].name]

(***************************************************************************)
(* Values that stand for "nothing here" in the specifications that do not  *)
(* use a variable.                                                         *)
(***************************************************************************)
NoPlan == [kind |-> "None"]
NoIter == [kind |-> "None"]

(***************************************************************************)
(* Record batches and the in-memory data source                            *)
(* (data_source/memory_data_source.rs).                                    *)
(***************************************************************************)
\* RecordBatch { schema, fields }
RecordBatch(s, fields) == [schema |-> s, fields |-> fields]

\* batch.field(i): the column at position i (0-based)
field(batch, i) == batch.fields[i + 1]

\* A column array: its type and its values.  The value of row i of column j
\* of stored batch k is a number that differs from the value of every other
\* cell, so that two columns with rows are equal only if they are the same
\* stored column.
ColumnArray(data_type, k, j, rows) ==
    [data_type |-> data_type,
     vals |-> [i \in 1..rows |-> ((k * (MaxFields + 2)) + j) * (MaxRows + 2) + i]]

\* column.size()
size(column) == Len(column.vals)

\* the k-th stored batch of a source with schema s, with the given row count
StoredBatch(s, k, rows) ==
    RecordBatch(s, [j \in 1..Len(s) |-> ColumnArray(s[j].data_type, k, j, rows)])

\* the data a source with schema s can hold: up to MaxBatches batches of the
\* source's schema, each with up to MaxRows rows
DataFor(s) ==
    UNION {{[k \in 1..n |-> StoredBatch(s, k, rows[k])] : rows \in [1..n -> 0..MaxRows]} :
           n \in 0..MaxBatches}

\* self.schema.fields.iter().position(|f| f.name == *name), from field j on:
\* <<i>> for Some(i), <<>> for None
RECURSIVE position_from(_, _, _)
position_from(s, name, j) ==
    IF j > Len(s) THEN <<>>
    ELSE IF s[j].name = name THEN <<j - 1>>
    ELSE position_from(s, name, j + 1)

position(s, name) == position_from(s, name, 1)

\* the position of every field whose name is in the projection, in schema order
projection_indices_schema_order(s, projection) ==
    LET all == [j \in 1..Len(s) |-> j - 1]
    IN  SelectSeq(all, LAMBDA i : \E n \in 1..Len(projection) : projection[n] = s[i + 1].name)

\* projection.iter().filter_map(|name| position(name)).collect()
RECURSIVE projection_indices(_, _)
projection_indices(s, projection) ==
    IF projection = <<>> THEN <<>>
    ELSE position(s, Head(projection)) \o projection_indices(s, Tail(projection))

\* the closure of scan's map: the batch emitted for a stored batch
scan_batch(s, indices, batch) ==
    RecordBatch(s, [n \in 1..Len(indices) |-> field(batch, indices[n])])

\* MemoryDataSource::scan: the lazy sequence over the stored batches
scan(s, projection) ==
    [kind |-> "scan",
     projection_indices |-> projection_indices(s, projection),
     pos |-> 0,
     done |-> FALSE]

(***************************************************************************)
(* ScanExec (physical_plan/scan.rs).                                       *)
(***************************************************************************)
\* ScanExec::new
ScanExec(projection) == [kind |-> "ScanExec", projection |-> projection]

\* ScanExec::schema
ScanExec_schema(op) == select(schema, op.projection)

\* ScanExec::execute
ScanExec_execute(op) == scan(schema, op.projection)

(***************************************************************************)
(* Schema::select applied to bounded schemas and name lists.               *)
(***************************************************************************)
InitSchema ==
    /\ schema \in Schemas
    /\ data = <<>>
    /\ plan = NoPlan
    /\ phys = NoPlan
    /\ call = NoCall
    /\ iter = NoIter
    /\ emitted = <<>>

\* schema.select(names)
Select(names) ==
    /\ call.op = "none"
    /\ call' = [op |-> "select", names |-> names, ret |-> select(schema, names)]
    /\ UNCHANGED <<schema, data, plan, phys, iter, emitted>>

\* the caller takes the result; the program is idle again
Return ==
    /\ call.op # "none"
    /\ call' = NoCall
    /\ UNCHANGED <<schema, data, plan, phys, iter, emitted>>

NextSchema ==
    \/ \E names \in Projections : Select(names)
    \/ Return

SpecSchema == InitSchema /\ [][NextSchema]_vars

\* how many fields of the schema have this name
CountNamed(s, name) == Cardinality({j \in 1..Len(s) : s[j].name = name})

\* C1: select(names) returns one field per entry of names, in the order of
\* names, each the schema's field of that name; it fails when some name
\* matches zero fields or more than one field.
C1_SelectContract ==
    call.op = "select" =>
        LET names == call.names
            r == call.ret
        IN  IF \A i \in 1..Len(names) : CountNamed(schema, names[i]) = 1
            THEN /\ r.st = "Ok"
                 /\ Len(r.schema) = Len(names)
                 /\ \A i \in 1..Len(names) :
                        /\ r.schema[i].name = names[i]
                        /\ \E j \in 1..Len(schema) : schema[j] = r.schema[i]
            ELSE r.st = "Panic"

\* a select that succeeds with the names in the opposite order of the schema
C1_Witness ==
    /\ call.op = "select"
    /\ call.ret.st = "Ok"
    /\ Len(schema) = 2
    /\ schema[1].name # schema[2].name
    /\ call.names = <<schema[2].name, schema[1].name>>

\* C2 as stated: selecting the names of the schema's fields in order gives
\* the schema back, for every schema, repeated names included.
C2_RoundTripAnySchema ==
    (call.op = "select" /\ call.names = NamesOf(schema)) =>
        call.ret = OkSchema(schema)

DistinctNames(s) == \A i, j \in 1..Len(s) : s[i].name = s[j].name => i = j

\* C2 amended: selecting the names of the schema's fields in order gives the
\* schema back when the field names are pairwise distinct, and fails when two
\* fields share a name.
C2_RoundTrip ==
    (call.op = "select" /\ call.names = NamesOf(schema)) =>
        IF DistinctNames(schema)
        THEN call.ret = OkSchema(schema)
        ELSE call.ret.st = "Panic"

\* the round trip on a schema of two differently named fields
C2_Witness ==
    /\ call.op = "select"
    /\ call.names = NamesOf(schema)
    /\ Len(schema) = 2
    /\ DistinctNames(schema)
    /\ call.ret.st = "Ok"

(***************************************************************************)
(* A ScanExec over an in-memory data source: schema(), execute() and the   *)
(* caller pulling the batches of the returned sequence one by one.         *)
(***************************************************************************)
InitScan ==
    /\ schema \in Schemas
    /\ data \in DataFor(schema)
    /\ plan = NoPlan
    /\ phys \in {ScanExec(p) : p \in Projections}
    /\ call = NoCall
    /\ iter = NoIter
    /\ emitted = <<>>

\* op.schema()
Schema ==
    /\ call.op = "none"
    /\ phys.kind = "ScanExec"
    /\ call' = [op |-> "schema", ret |-> ScanExec_schema(phys)]
    /\ UNCHANGED <<schema, data, plan, phys, iter, emitted>>

\* op.execute(): a new sequence, positioned before the first batch; a
\* sequence obtained earlier is dropped
Execute ==
    /\ call.op = "none"
    /\ phys.kind = "ScanExec"
    /\ iter' = ScanExec_execute(phys)
    /\ emitted' = <<>>
    /\ UNCHANGED <<schema, data, plan, phys, call>>

\* next() on the sequence: the batch for the next stored batch, or the end
Pull ==
    /\ call.op = "none"
    /\ iter.kind = "scan"
    /\ ~iter.done
    /\ IF iter.pos < Len(data)
       THEN /\ emitted' = Append(emitted,
                                 scan_batch(schema, iter.projection_indices, data[iter.pos + 1]))
            /\ iter' = [iter EXCEPT !.pos = @ + 1]
       ELSE /\ iter' = [iter EXCEPT !.done = TRUE]
            /\ UNCHANGED emitted
    /\ UNCHANGED <<schema, data, plan, phys, call>>

NextScan ==
    \/ Schema
    \/ Execute
    \/ Pull
    \/ Return

SpecScan == InitScan /\ [][NextScan]_vars

\* the projection entries that name a field of the schema, in projection order
KnownNames(s, projection) == SelectSeq(projection, LAMBDA n : CountNamed(s, n) > 0)

\* the first field of the schema with this name (1-based)
FirstNamed(s, name) ==
    CHOOSE j \in 1..Len(s) : s[j].name = name /\ \A j2 \in 1..(j - 1) : s[j2].name # name

\* C3: scan(projection) yields one batch per stored batch in stored order;
\* each holds, in projection order, the column of the first schema field
\* named by each projection entry, entries naming no field being dropped.
C3_ScanContract ==
    iter.kind = "scan" =>
        LET known == KnownNames(schema, phys.projection)
        IN  /\ Len(emitted) = iter.pos
            /\ Len(emitted) <= Len(data)
            /\ iter.done => Len(emitted) = Len(data)
            /\ \A k \in 1..Len(emitted) :
                   /\ Len(emitted[k].fields) = Len(known)
                   /\ \A n \in 1..Len(known) :
                          emitted[k].fields[n] = data[k].fields[FirstNamed(schema, known[n])]

\* a finished scan of two batches with rows whose projection names an
\* unknown column before a known one
C3_Witness ==
    /\ iter.kind = "scan"
    /\ iter.done
    /\ Len(emitted) = 2
    /\ Len(phys.projection) = 2
    /\ phys.projection[1] = "z"
    /\ Len(emitted[1].fields) = 1
    /\ size(emitted[1].fields[1]) > 0

\* C4 as stated, for the batches a ScanExec emits: the batch has as many
\* columns as the operator's schema() has fields and as the schema it is
\* tagged with has fields, and its columns all have the same size.
C4_BatchMatchesSchema ==
    \A k \in 1..Len(emitted) :
        LET B == emitted[k]
            s == ScanExec_schema(phys)
        IN  /\ s.st = "Ok" => Len(B.fields) = Len(s.schema)
            /\ Len(B.fields) = Len(B.schema)
            /\ \A i, j \in 1..Len(B.fields) : size(B.fields[i]) = size(B.fields[j])

(***************************************************************************)
(* Logical expressions (logical_plan/expr.rs).                             *)
(***************************************************************************)
\* ScalarValue; a float is a number of tenths, or NaN
ScalarString(s) == [tag |-> "String", s |-> s]
ScalarInt32(i) == [tag |-> "Int32", i |-> i]
ScalarInt64(i) == [tag |-> "Int64", i |-> i]
ScalarFloat32(tenths) == [tag |-> "Float32", f |-> [nan |-> FALSE, tenths |-> tenths]]
ScalarFloat64(tenths) == [tag |-> "Float64", f |-> [nan |-> FALSE, tenths |-> tenths]]
ScalarNaN64 == [tag |-> "Float64", f |-> [nan |-> TRUE, tenths |-> 0]]

\* the variants of Expr
Column(name) == [kind |-> "Column", name |-> name]
ColumnIndex(index) == [kind |-> "ColumnIndex", index |-> index]
Literal(value) == [kind |-> "Literal", value |-> value]
\* Not::new
Not(expr) == [kind |-> "Not", name |-> "not", op |-> "NOT", expr |-> expr]
Cast(expr, data_type) == [kind |-> "Cast", expr |-> expr, data_type |-> data_type]
BinaryExpr(op, left, right) == [kind |-> "BinaryExpr", op |-> op, left |-> left, right |-> right]
\* Alias::new
Alias(expr, alias) == [kind |-> "Alias", expr |-> expr, alias |-> alias]
ScalarFunction(name, args, return_type) ==
    [kind |-> "ScalarFunction", name |-> name, args |-> args, return_type |-> return_type]
AggregateExpr(fun, expr, is_distinct) ==
    [kind |-> "AggregateFunction", fun |-> fun, expr |-> expr, is_distinct |-> is_distinct]

Operator == {"And", "Or", "Eq", "Neq", "Gt", "GtEq", "Lt", "LtEq",
             "Add", "Subtract", "Multiply", "Divide", "Modulus"}

AggregateFunction == {"Sum", "Min", "Max", "Avg", "Count", "CountDistinct"}

\* Operator::get_name
Operator_get_name(op) ==
    CASE op = "And" -> "and"
      [] op = "Or" -> "or"
      [] op = "Eq" -> "eq"
      [] op = "Neq" -> "neq"
      [] op = "Gt" -> "gt"
      [] op = "GtEq" -> "gteq"
      [] op = "Lt" -> "lt"
      [] op = "LtEq" -> "lteq"
      [] op = "Add" -> "add"
      [] op = "Subtract" -> "subtract"
      [] op = "Multiply" -> "mult"
      [] op = "Divide" -> "div"
      [] op = "Modulus" -> "mod"

\* AggregateFunction::get_name
AggregateFunction_get_name(fun) ==
    CASE fun = "Sum" -> "sum"
      [] fun = "Min" -> "min"
      [] fun = "Max" -> "max"
      [] fun = "Avg" -> "avg"
      [] fun = "Count" -> "count"
      [] fun = "CountDistinct" -> "count_distinct"

\* f.to_string() of a non-negative float / of NaN
Float_to_string(f) ==
    IF f.nan THEN "NaN"
    ELSE IF f.tenths % 10 = 0 THEN ToString(f.tenths \div 10)
    ELSE ToString(f.tenths \div 10) \o "." \o ToString(f.tenths % 10)

\* outcomes of a call returning a field
OkField(f) == [st |-> "Ok", field |-> f]
Err(msg) == [st |-> "Err", msg |-> msg]

\* the variants of the logical Plan; the one data source of the model is the
\* source of every Scan
Scan(projection) == [kind |-> "Scan", projection |-> projection]
Projection(input, exprs) == [kind |-> "Projection", input |-> input, exprs |-> exprs]
Selection(input, expr) == [kind |-> "Selection", input |-> input, expr |-> expr]
Aggregate(input, group_exprs, aggregate_exprs) ==
    [kind |-> "Aggregate", input |-> input,
     group_exprs |-> group_exprs, aggregate_exprs |-> aggregate_exprs]

RECURSIVE Plan_schema(_, _)
RECURSIVE to_field(_, _, _)
RECURSIVE collect_fields(_, _, _, _, _)

\* <ScalarValue as LogicalExpr>::to_field
ScalarValue_to_field(v) ==
    CASE v.tag = "String" -> OkField(Field(v.s, "Utf8"))
      [] v.tag = "Int32" -> OkField(Field(ToString(v.i), "Int32"))
      [] v.tag = "Int64" -> OkField(Field(ToString(v.i), "Int64"))
      [] v.tag = "Float32" -> OkField(Field(Float_to_string(v.f), "Float32"))
      [] v.tag = "Float64" -> OkField(Field(Float_to_string(v.f), "Float64"))

\* Column::to_field that unwraps the result of find()
Column_to_field_unwrap(src, c, input) ==
    LET s == Plan_schema(src, input)
    IN  IF s.st = "Panic" THEN Panic
        ELSE LET found == Matching(s.schema, c.name)
             IN  IF Len(found) > 0 THEN OkField(found[1]) ELSE Panic

\* <Column as LogicalExpr>::to_field: find() gives the first field of that name
Column_to_field(src, c, input) ==
    LET s == Plan_schema(src, input)
    IN  IF s.st = "Panic" THEN Panic
        ELSE LET found == Matching(s.schema, c.name)
             IN  IF Len(found) > 0 THEN OkField(found[1])
                 ELSE Err("No column named '" \o c.name \o "'")

\* <ColumnIndex as LogicalExpr>::to_field: indexing out of range panics
ColumnIndex_to_field(src, c, input) ==
    LET s == Plan_schema(src, input)
    IN  IF s.st = "Panic" THEN Panic
        ELSE IF c.index < Len(s.schema) THEN OkField(s.schema[c.index + 1])
        ELSE Panic

\* <Not as LogicalExpr>::to_field
Not_to_field(n) == OkField(Field(n.name, "Boolean"))

\* <Cast as LogicalExpr>::to_field
Cast_to_field(src, c, input) ==
    LET r == to_field(src, c.expr, input)
    IN  IF r.st = "Ok" THEN OkField(Field(r.field.name, c.data_type)) ELSE r

\* BinaryExpr::to_field giving an arithmetic operator the type of its left operand
BinaryExpr_to_field_typed(src, b, input) ==
    IF b.op \in {"Add", "Subtract", "Multiply", "Divide", "Modulus"}
    THEN LET r == to_field(src, b.left, input)
         IN  IF r.st = "Ok" THEN OkField(Field(Operator_get_name(b.op), r.field.data_type)) ELSE r
    ELSE OkField(Field(Operator_get_name(b.op), "Boolean"))

\* <BinaryExpr as LogicalExpr>::to_field
BinaryExpr_to_field(src, b, input) == OkField(Field(Operator_get_name(b.op), "Boolean"))

\* <Alias as LogicalExpr>::to_field
Alias_to_field(src, a, input) ==
    LET r == to_field(src, a.expr, input)
    IN  IF r.st = "Ok" THEN OkField(Field(a.alias, r.field.data_type)) ELSE r

\* <ScalarFunction as LogicalExpr>::to_field
ScalarFunction_to_field(f) == OkField(Field(f.name, f.return_type))

\* AggregateExpr::to_field keeping the name of the inner field
AggregateExpr_to_field_inner_name(src, a, input) == to_field(src, a.expr, input)

\* <AggregateExpr as LogicalExpr>::to_field
AggregateExpr_to_field(src, a, input) ==
    LET r == to_field(src, a.expr, input)
    IN  IF r.st = "Ok" THEN OkField(Field(AggregateFunction_get_name(a.fun), r.field.data_type))
        ELSE r

\* <Expr as LogicalExpr>::to_field
to_field(src, e, input) ==
    CASE e.kind = "Column" -> Column_to_field(src, e, input)
      [] e.kind = "ColumnIndex" -> ColumnIndex_to_field(src, e, input)
      [] e.kind = "Literal" -> ScalarValue_to_field(e.value)
      [] e.kind = "Not" -> Not_to_field(e)
      [] e.kind = "Cast" -> Cast_to_field(src, e, input)
      [] e.kind = "BinaryExpr" -> BinaryExpr_to_field(src, e, input)
      [] e.kind = "Alias" -> Alias_to_field(src, e, input)
      [] e.kind = "ScalarFunction" -> ScalarFunction_to_field(e)
      [] e.kind = "AggregateFunction" -> AggregateExpr_to_field(src, e, input)

\* exprs.iter().map(|e| e.to_field(input)), taken in order from expression i
\* on: the fields, or the first outcome that is not Ok
collect_fields(src, exprs, input, i, fields) ==
    IF i > Len(exprs) THEN OkSchema(fields)
    ELSE LET r == to_field(src, exprs[i], input)
         IN  IF r.st = "Ok" THEN collect_fields(src, exprs, input, i + 1, Append(fields, r.field))
             ELSE r

\* .unwrap(): an Err becomes a panic
unwrap(r) == IF r.st = "Err" THEN Panic ELSE r

(***************************************************************************)
(* Logical plans (logical_plan/scan.rs, projection.rs, selection.rs).      *)
(***************************************************************************)
\* Scan::schema that always selects
Scan_schema_select(src, p) == select(src, p.projection)

\* <Scan as LogicalPlan>::schema
Scan_schema(src, p) ==
    IF p.projection = <<>> THEN OkSchema(src)
    ELSE select(src, p.projection)

\* <Projection as LogicalPlan>::schema
Projection_schema(src, p) == unwrap(collect_fields(src, p.exprs, p.input, 1, <<>>))

\* <Selection as LogicalPlan>::schema
Selection_schema(src, p) == Plan_schema(src, p.input)

\* <Aggregate as LogicalPlan>::schema: the group fields, then the aggregate fields
Aggregate_schema(src, p) ==
    unwrap(collect_fields(src, p.group_exprs \o p.aggregate_exprs, p.input, 1, <<>>))

\* Plan::schema
Plan_schema(src, p) ==
    CASE p.kind = "Scan" -> Scan_schema(src, p)
      [] p.kind = "Projection" -> Projection_schema(src, p)
      [] p.kind = "Selection" -> Selection_schema(src, p)
      [] p.kind = "Aggregate" -> Aggregate_schema(src, p)

\* <Scan as LogicalPlan>::children
Scan_children(p) == <<>>

\* <Projection as LogicalPlan>::children
Projection_children(p) == <<p.input>>

\* <Selection as LogicalPlan>::children
Selection_children(p) == <<p.input>>

\* <Aggregate as LogicalPlan>::children
Aggregate_children(p) == <<p.input>>

\* Plan::children
Plan_children(p) ==
    CASE p.kind = "Scan" -> Scan_children(p)
      [] p.kind = "Projection" -> Projection_children(p)
      [] p.kind = "Selection" -> Selection_children(p)
      [] p.kind = "Aggregate" -> Aggregate_children(p)

(***************************************************************************)
(* The query planner (query_planner/planner.rs).                           *)
(***************************************************************************)
\* the variants of the physical Expr
PhysicalColumn(index) == [kind |-> "Column", index |-> index]
PhysicalLiteral(value) == [kind |-> "Literal", value |-> value]
PhysicalCast(expr, data_type) == [kind |-> "Cast", expr |-> expr, data_type |-> data_type]
PhysicalBinaryExpr(op, left, right) ==
    [kind |-> "BinaryExpr", op |-> op, left |-> left, right |-> right]
\* physical_plan::aggregate::AggregateExpr::new
PhysicalAggregateExpr(expr, fun) == [kind |-> "AggregateExpr", expr |-> expr, fun |-> fun]

\* the physical operators besides ScanExec
ProjectionExec(input, s, expr) ==
    [kind |-> "ProjectionExec", input |-> input, schema |-> s, expr |-> expr]
SelectionExec(input, expr) == [kind |-> "SelectionExec", input |-> input, expr |-> expr]
HashExec(input, s, group_exprs, aggr_exprs) ==
    [kind |-> "HashExec", input |-> input, schema |-> s,
     group_exprs |-> group_exprs, aggr_exprs |-> aggr_exprs]

\* outcomes of lowering an expression / a plan
OkExpr(e) == [st |-> "Ok", expr |-> e]
OkExprs(es) == [st |-> "Ok", exprs |-> es]
OkPlan(p) == [st |-> "Ok", plan |-> p]

\* the Literal arm of create_physical_expr: the same tag and value
lower_scalar(l) ==
    CASE l.tag = "String" -> ScalarString(l.s)
      [] l.tag = "Int32" -> ScalarInt32(l.i)
      [] l.tag = "Int64" -> ScalarInt64(l.i)
      [] l.tag = "Float32" -> [tag |-> "Float32", f |-> l.f]
      [] l.tag = "Float64" -> [tag |-> "Float64", f |-> l.f]

RECURSIVE create_physical_expr(_, _, _)

\* create_physical_expr taking the last field of the name (rposition)
create_physical_expr_rposition(src, e, input) ==
    CASE e.kind = "Column" ->
            LET s == Plan_schema(src, input)
            IN  IF s.st = "Panic" THEN Panic
                ELSE LET found == {j \in 1..Len(s.schema) : s.schema[j].name = e.name}
                     IN  IF found # {}
                         THEN OkExpr(PhysicalColumn((CHOOSE j \in found : \A k \in found : k <= j) - 1))
                         ELSE Err("No column named " \o e.name)
      [] e.kind = "ColumnIndex" -> OkExpr(PhysicalColumn(e.index))
      [] e.kind = "Literal" -> OkExpr(PhysicalLiteral(lower_scalar(e.value)))
      [] e.kind = "Cast" ->
            LET r == create_physical_expr(src, e.expr, input)
            IN  IF r.st = "Ok" THEN OkExpr(PhysicalCast(r.expr, e.data_type)) ELSE r
      [] e.kind = "BinaryExpr" ->
            LET l == create_physical_expr(src, e.left, input)
            IN  IF l.st # "Ok" THEN l
                ELSE LET r == create_physical_expr(src, e.right, input)
                     IN  IF r.st # "Ok" THEN r
                         ELSE OkExpr(PhysicalBinaryExpr(e.op, l.expr, r.expr))
      [] e.kind = "Alias" -> create_physical_expr(src, e.expr, input)
      [] e.kind \in {"Not", "ScalarFunction", "AggregateFunction"} -> Panic

\* create_physical_expr building the binary expression with its operands swapped
create_physical_expr_swapped(src, e, input) ==
    CASE e.kind = "Column" ->
            LET s == Plan_schema(src, input)
            IN  IF s.st = "Panic" THEN Panic
                ELSE LET index == position(s.schema, e.name)
                     IN  IF index # <<>> THEN OkExpr(PhysicalColumn(index[1]))
                         ELSE Err("No column named " \o e.name)
      [] e.kind = "ColumnIndex" -> OkExpr(PhysicalColumn(e.index))
      [] e.kind = "Literal" -> OkExpr(PhysicalLiteral(lower_scalar(e.value)))
      [] e.kind = "Cast" ->
            LET r == create_physical_expr(src, e.expr, input)
            IN  IF r.st = "Ok" THEN OkExpr(PhysicalCast(r.expr, e.data_type)) ELSE r
      [] e.kind = "BinaryExpr" ->
            LET l == create_physical_expr(src, e.left, input)
            IN  IF l.st # "Ok" THEN l
                ELSE LET r == create_physical_expr(src, e.right, input)
                     IN  IF r.st # "Ok" THEN r
                         ELSE OkExpr(PhysicalBinaryExpr(e.op, r.expr, l.expr))
      [] e.kind = "Alias" -> create_physical_expr(src, e.expr, input)
      [] e.kind \in {"Not", "ScalarFunction", "AggregateFunction"} -> Panic

\* QueryPlanner::create_physical_expr
create_physical_expr(src, e, input) ==
    CASE e.kind = "Column" ->
            LET s == Plan_schema(src, input)
            IN  IF s.st = "Panic" THEN Panic
                ELSE LET index == position(s.schema, e.name)
                     IN  IF index # <<>> THEN OkExpr(PhysicalColumn(index[1]))
                         ELSE Err("No column named " \o e.name)
      [] e.kind = "ColumnIndex" -> OkExpr(PhysicalColumn(e.index))
      [] e.kind = "Literal" -> OkExpr(PhysicalLiteral(lower_scalar(e.value)))
      [] e.kind = "Cast" ->
            LET r == create_physical_expr(src, e.expr, input)
            IN  IF r.st = "Ok" THEN OkExpr(PhysicalCast(r.expr, e.data_type)) ELSE r
      [] e.kind = "BinaryExpr" ->
            LET l == create_physical_expr(src, e.left, input)
            IN  IF l.st # "Ok" THEN l
                ELSE LET r == create_physical_expr(src, e.right, input)
                     IN  IF r.st # "Ok" THEN r
                         ELSE OkExpr(PhysicalBinaryExpr(e.op, l.expr, r.expr))
      [] e.kind = "Alias" -> create_physical_expr(src, e.expr, input)
      [] e.kind = "Not" -> Panic                    \* unreachable!()
      [] e.kind = "ScalarFunction" -> Panic         \* unreachable!()
      [] e.kind = "AggregateFunction" -> Panic      \* unreachable!()

\* exprs.iter().map(|expr| create_physical_expr(expr, input)).collect(), from
\* expression i on: the lowered expressions, or the first outcome that is not Ok
RECURSIVE collect_exprs(_, _, _, _, _)
collect_exprs(src, exprs, input, i, lowered) ==
    IF i > Len(exprs) THEN OkExprs(lowered)
    ELSE LET r == create_physical_expr(src, exprs[i], input)
         IN  IF r.st = "Ok" THEN collect_exprs(src, exprs, input, i + 1, Append(lowered, r.expr))
             ELSE r

RECURSIVE collect_aggr_exprs(_, _, _, _, _)

\* the aggregate arm's map giving every aggregate the argument of the first
collect_aggr_exprs_first_argument(src, exprs, input, i, lowered) ==
    IF i > Len(exprs) THEN OkExprs(lowered)
    ELSE IF exprs[i].kind # "AggregateFunction" THEN Panic
    ELSE LET r == create_physical_expr(src, exprs[1].expr, input)
         IN  IF r.st = "Ok"
             THEN collect_aggr_exprs(src, exprs, input, i + 1,
                                     Append(lowered, PhysicalAggregateExpr(r.expr, exprs[i].fun)))
             ELSE r

\* the aggregate arm's map over aggregate_exprs, from expression i on
collect_aggr_exprs(src, exprs, input, i, lowered) ==
    IF i > Len(exprs) THEN OkExprs(lowered)
    ELSE IF exprs[i].kind # "AggregateFunction" THEN Panic      \* unreachable!()
    ELSE LET r == create_physical_expr(src, exprs[i].expr, input)
         IN  IF r.st = "Ok"
             THEN collect_aggr_exprs(src, exprs, input, i + 1,
                                     Append(lowered, PhysicalAggregateExpr(r.expr, exprs[i].fun)))
             ELSE r

RECURSIVE create_physical_plan(_, _)

\* create_physical_plan handing HashExec no group expressions
create_physical_plan_no_groups(src, p) ==
    CASE p.kind = "Scan" -> OkPlan(ScanExec(p.projection))
      [] p.kind = "Projection" ->
            LET input == create_physical_plan(src, p.input)
            IN  IF input.st # "Ok" THEN input
                ELSE LET projection_exprs == collect_exprs(src, p.exprs, p.input, 1, <<>>)
                     IN  IF projection_exprs.st # "Ok" THEN projection_exprs
                         ELSE LET projection_schema ==
                                      collect_fields(src, p.exprs, p.input, 1, <<>>)
                              IN  IF projection_schema.st # "Ok" THEN projection_schema
                                  ELSE OkPlan(ProjectionExec(input.plan,
                                                             projection_schema.schema,
                                                             projection_exprs.exprs))
      [] p.kind = "Selection" ->
            LET input == create_physical_plan(src, p.input)
            IN  IF input.st # "Ok" THEN input
                ELSE LET filer_expr == create_physical_expr(src, p.expr, p.input)
                     IN  IF filer_expr.st # "Ok" THEN filer_expr
                         ELSE OkPlan(SelectionExec(input.plan, filer_expr.expr))
      [] p.kind = "Aggregate" ->
            LET input == create_physical_plan(src, p.input)
            IN  IF input.st # "Ok" THEN input
                ELSE LET group_exprs == collect_exprs(src, p.group_exprs, p.input, 1, <<>>)
                     IN  IF group_exprs.st # "Ok" THEN group_exprs
                         ELSE LET aggr_exprs ==
                                      collect_aggr_exprs(src, p.aggregate_exprs, p.input, 1, <<>>)
                              IN  IF aggr_exprs.st # "Ok" THEN aggr_exprs
                                  ELSE LET s == Aggregate_schema(src, p)
                                       IN  IF s.st # "Ok" THEN s
                                           ELSE OkPlan(HashExec(input.plan, s.schema,
                                                                <<>>,
                                                                aggr_exprs.exprs))

\* QueryPlanner::create_physical_plan
create_physical_plan(src, p) ==
    CASE p.kind = "Scan" -> OkPlan(ScanExec(p.projection))
      [] p.kind = "Projection" ->
            LET input == create_physical_plan(src, p.input)
            IN  IF input.st # "Ok" THEN input
                ELSE LET projection_exprs == collect_exprs(src, p.exprs, p.input, 1, <<>>)
                     IN  IF projection_exprs.st # "Ok" THEN projection_exprs
                         ELSE LET projection_schema ==
                                      collect_fields(src, p.exprs, p.input, 1, <<>>)
                              IN  IF projection_schema.st # "Ok" THEN projection_schema
                                  ELSE OkPlan(ProjectionExec(input.plan,
                                                             projection_schema.schema,
                                                             projection_exprs.exprs))
      [] p.kind = "Selection" ->
            LET input == create_physical_plan(src, p.input)
            IN  IF input.st # "Ok" THEN input
                ELSE LET filer_expr == create_physical_expr(src, p.expr, p.input)
                     IN  IF filer_expr.st # "Ok" THEN filer_expr
                         ELSE OkPlan(SelectionExec(input.plan, filer_expr.expr))
      [] p.kind = "Aggregate" ->
            LET input == create_physical_plan(src, p.input)
            IN  IF input.st # "Ok" THEN input
                ELSE LET group_exprs == collect_exprs(src, p.group_exprs, p.input, 1, <<>>)
                     IN  IF group_exprs.st # "Ok" THEN group_exprs
                         ELSE LET aggr_exprs ==
                                      collect_aggr_exprs(src, p.aggregate_exprs, p.input, 1, <<>>)
                              IN  IF aggr_exprs.st # "Ok" THEN aggr_exprs
                                  ELSE LET s == Aggregate_schema(src, p)
                                       IN  IF s.st # "Ok" THEN s
                                           ELSE OkPlan(HashExec(input.plan, s.schema,
                                                                group_exprs.exprs,
                                                                aggr_exprs.exprs))

(***************************************************************************)
(* The expressions and plans the bounded inputs are drawn from.            *)
(***************************************************************************)
Scalars == {ScalarInt32(1), ScalarInt64(2), ScalarString("a"), ScalarFloat64(12), ScalarNaN64}

LeafExprs ==
    {Column(n) : n \in ProjNames}
        \cup {ColumnIndex(i) : i \in 0..(MaxFields - 1)}
        \cup {Literal(v) : v \in Scalars}

Operands == {Column("a"), Column("z"), Literal(ScalarInt32(1))}

NestedExprs ==
    {BinaryExpr("Eq", BinaryExpr("Add", Column("a"), Literal(ScalarInt32(1))),
                Literal(ScalarInt32(2))),
     BinaryExpr("And", Not(Column("a")), Column("b")),
     Cast(Alias(Column("b"), "x"), "Int64"),
     Alias(Cast(ColumnIndex(1), "Utf8"), "a"),
     Alias(AggregateExpr("Max", Column("a"), FALSE), "m"),
     AggregateExpr("Sum", Cast(Column("b"), "Int64"), FALSE),
     AggregateExpr("Avg", Cast(Column("z"), "Float64"), FALSE),
     ScalarFunction("sqrt", <<Column("a"), Column("z")>>, "Float64")}

Exprs ==
    LeafExprs
        \cup {Not(e) : e \in Operands}
        \cup {Cast(e, t) : e \in Operands, t \in {"Int64", "Utf8"}}
        \cup {BinaryExpr(op, l, r) : op \in Operator, l \in Operands, r \in Operands}
        \cup {Alias(e, n) : e \in Operands, n \in {"a", "x"}}
        \cup {ScalarFunction("sqrt", <<e>>, "Float64") : e \in Operands}
        \cup {AggregateExpr(fun, e, d) : fun \in AggregateFunction, e \in Operands \cup {Column("b")},
                                         d \in BOOLEAN}
        \cup NestedExprs

\* expression lists of projections
ProjExprs == {Column("a"), Column("b"), Column("z"), Literal(ScalarInt32(1)),
              Alias(Column("b"), "a")}
ExprLists == SeqsUpTo(ProjExprs, MaxNames) \ {<<>>}

Predicates == {Column("a"),
               BinaryExpr("Eq", Column("a"), Literal(ScalarInt32(1))),
               BinaryExpr("Gt", Column("z"), Literal(ScalarInt32(1))),
               Not(Column("a"))}

GroupLists == {<<>>, <<Column("a")>>, <<Column("b"), Column("a")>>, <<Column("z")>>}
AggregateLists ==
    {<<AggregateExpr("Max", Column("a"), FALSE)>>,
     <<AggregateExpr("Sum", Column("b"), FALSE), AggregateExpr("Count", Column("a"), TRUE)>>,
     <<AggregateExpr("Min", Column("z"), FALSE)>>,
     <<AggregateExpr("Max", Not(Column("a")), FALSE)>>,
     <<Column("a")>>}

Scans == {Scan(p) : p \in Projections}

\* plans of one node over a scan
PlansOverScan ==
    {Projection(in, es) : in \in Scans, es \in ExprLists}
        \cup {Selection(in, e) : in \in Scans, e \in Predicates}
        \cup {Aggregate(in, g, a) : in \in Scans, g \in GroupLists, a \in AggregateLists}

\* plans of two nodes over a scan of all columns
PlansOverPlan ==
    LET inputs == {p \in PlansOverScan : p.input = Scan(<<>>)}
    IN  {Projection(in, <<e>>) : in \in inputs, e \in ProjExprs}
            \cup {Selection(in, e) : in \in inputs, e \in Predicates}

Plans == Scans \cup PlansOverScan \cup PlansOverPlan

\* the input plans expressions are resolved against
InputPlans ==
    Scans \cup
    {Projection(Scan(<<>>), <<Column("a"), Column("a")>>),
     Projection(Scan(<<>>), <<Alias(Column("b"), "a"), Literal(ScalarInt32(1))>>),
     Projection(Scan(<<>>), <<Column("z")>>),
     Selection(Scan(<<>>), BinaryExpr("Eq", Column("a"), Literal(ScalarInt32(1)))),
     Selection(Projection(Scan(<<>>), <<Column("b"), Column("a")>>), Column("a")),
     Aggregate(Scan(<<>>), <<Column("a")>>, <<AggregateExpr("Max", Column("a"), FALSE)>>),
     Aggregate(Scan(<<>>), <<Column("b")>>,
               <<AggregateExpr("Sum", Column("a"), FALSE),
                 AggregateExpr("Count", Column("b"), FALSE)>>)}

(***************************************************************************)
(* Calls on a logical plan and on expressions resolved against it.         *)
(***************************************************************************)
\* expr.to_field(plan)
ToField(e) ==
    /\ call.op = "none"
    /\ call' = [op |-> "to_field", expr |-> e, ret |-> to_field(schema, e, plan)]
    /\ UNCHANGED <<schema, data, plan, phys, iter, emitted>>

\* QueryPlanner::create_physical_expr(expr, plan)
CreatePhysicalExpr(e) ==
    /\ call.op = "none"
    /\ call' = [op |-> "create_physical_expr", expr |-> e,
                ret |-> create_physical_expr(schema, e, plan)]
    /\ UNCHANGED <<schema, data, plan, phys, iter, emitted>>

\* QueryPlanner::create_physical_plan(plan)
CreatePhysicalPlan ==
    /\ call.op = "none"
    /\ call' = [op |-> "create_physical_plan", ret |-> create_physical_plan(schema, plan)]
    /\ UNCHANGED <<schema, data, plan, phys, iter, emitted>>

\* plan.schema()
PlanSchema ==
    /\ call.op = "none"
    /\ call' = [op |-> "plan.schema", ret |-> Plan_schema(schema, plan)]
    /\ UNCHANGED <<schema, data, plan, phys, iter, emitted>>

\* plan.children()
PlanChildren ==
    /\ call.op = "none"
    /\ call' = [op |-> "plan.children", ret |-> Plan_children(plan)]
    /\ UNCHANGED <<schema, data, plan, phys, iter, emitted>>

InitExpr ==
    /\ schema \in Schemas
    /\ data = <<>>
    /\ plan \in InputPlans
    /\ phys = NoPlan
    /\ call = NoCall
    /\ iter = NoIter
    /\ emitted = <<>>

NextExpr ==
    \/ \E e \in Exprs : ToField(e)
    \/ \E e \in Exprs : CreatePhysicalExpr(e)
    \/ CreatePhysicalPlan
    \/ Return

SpecExpr == InitExpr /\ [][NextExpr]_vars

InitPlan ==
    /\ schema \in Schemas
    /\ data = <<>>
    /\ plan \in Plans
    /\ phys = NoPlan
    /\ call = NoCall
    /\ iter = NoIter
    /\ emitted = <<>>

NextPlan ==
    \/ PlanSchema
    \/ PlanChildren
    \/ CreatePhysicalPlan
    \/ Return

SpecPlan == InitPlan /\ [][NextPlan]_vars

\* C5: a logical Scan's schema() is the source's full schema when the
\* projection list is empty and source.schema().select(projection) otherwise;
\* its children() is empty.
C5_ScanSchema ==
    /\ (call.op = "plan.schema" /\ plan.kind = "Scan") =>
           IF Len(plan.projection) = 0
           THEN call.ret = OkSchema(schema)
           ELSE call.ret = select(schema, plan.projection)
    /\ (call.op = "plan.children" /\ plan.kind = "Scan") => Len(call.ret) = 0

\* schema() of a scan without projection over a source with two fields
C5_Witness ==
    /\ call.op = "plan.schema"
    /\ plan.kind = "Scan"
    /\ plan.projection = <<>>
    /\ Len(schema) = 2
    /\ call.ret.st = "Ok"

\* the expressions that name every field of schema s, in order
ColumnsOf(s) == [i \in 1..Len(s) |-> Column(s[i].name)]

\* schema() of a Projection is the fields its expressions resolve to against
\* the input, in order, and there is no schema when one does not resolve
ProjectionResolves ==
    (call.op = "plan.schema" /\ plan.kind = "Projection") =>
        LET resolved == [i \in 1..Len(plan.exprs) |-> to_field(schema, plan.exprs[i], plan.input)]
        IN  IF \A i \in 1..Len(resolved) : resolved[i].st = "Ok"
            THEN /\ call.ret.st = "Ok"
                 /\ Len(call.ret.schema) = Len(plan.exprs)
                 /\ \A i \in 1..Len(resolved) : call.ret.schema[i] = resolved[i].field
            ELSE call.ret.st = "Panic"

\* schema() of a Selection is the schema of its input
SelectionKeepsSchema ==
    (call.op = "plan.schema" /\ plan.kind = "Selection") =>
        call.ret = Plan_schema(schema, plan.input)

\* children() of a Projection or Selection is exactly the input, the plan
\* the node's expressions are resolved against
ChildIsInput ==
    (call.op = "plan.children" /\ plan.kind \in {"Projection", "Selection"}) =>
        call.ret = <<plan.input>>

\* C6: a Projection's schema() is the fields its expressions resolve to
\* against the input, in order, so that projecting every input column by
\* name in order gives the input schema; a Selection's schema() is its
\* input's schema; children() of both is exactly the input.
C6_ProjectAllGivesInputSchema ==
    /\ ProjectionResolves
    /\ SelectionKeepsSchema
    /\ ChildIsInput
    /\ (call.op = "plan.schema" /\ plan.kind = "Projection") =>
           LET in == Plan_schema(schema, plan.input)
           IN  (in.st = "Ok" /\ plan.exprs = ColumnsOf(in.schema)) => call.ret = in

\* the schema of the plan at hand has n fields named like the column of the call
NamedInPlan(n) ==
    LET s == Plan_schema(schema, plan)
    IN  s.st = "Ok" /\ CountNamed(s.schema, call.expr.name) = n

\* C7: Column(name).to_field(plan) returns an error value when no field of
\* plan.schema() has that name, and the field unchanged when exactly one has.
C7_ColumnResolution ==
    (call.op = "to_field" /\ call.expr.kind = "Column") =>
        LET s == Plan_schema(schema, plan)
        IN  /\ NamedInPlan(0) => call.ret.st = "Err"
            /\ NamedInPlan(1) =>
                   /\ call.ret.st = "Ok"
                   /\ call.ret.field.name = call.expr.name
                   /\ \E j \in 1..Len(s.schema) : s.schema[j] = call.ret.field

\* resolving a column that the non-empty schema of the plan does not have
C7_Witness ==
    /\ call.op = "to_field"
    /\ call.expr.kind = "Column"
    /\ NamedInPlan(0)
    /\ Len(Plan_schema(schema, plan).schema) > 0
    /\ call.ret.st = "Err"

\* C8: resolving or lowering Column(name) against a plan whose schema has two
\* or more fields of that name fails; it never picks one of them.
C8_AmbiguousColumnFails ==
    (/\ call.op \in {"to_field", "create_physical_expr"}
     /\ call.expr.kind = "Column"
     /\ \E n \in 2..MaxFields : NamedInPlan(n))
        => call.ret.st # "Ok"

\* C9: BinaryExpr(op, left, right).to_field(input) is the field named by the
\* operator's token with data type Boolean, for every operator, operands and
\* input.
C9_BinaryExprField ==
    (call.op = "to_field" /\ call.expr.kind = "BinaryExpr") =>
        /\ call.ret.st = "Ok"
        /\ call.ret.field.data_type = "Boolean"
        /\ call.ret.field.name = Operator_get_name(call.expr.op)

\* an arithmetic expression over an Int32 column resolved against a plan that
\* has the column
C9_Witness ==
    /\ call.op = "to_field"
    /\ call.expr = BinaryExpr("Add", Column("a"), Literal(ScalarInt32(1)))
    /\ to_field(schema, Column("a"), plan) = OkField(Field("a", "Int32"))
    /\ call.ret.st = "Ok"

\* C10: AggregateFunction(fun, expr, d).to_field(input) is (name of fun, data
\* type of expr resolved against input) and fails when expr does not resolve;
\* the schema given to the hash aggregate is the group fields followed by the
\* aggregate fields, [c: Int32, max: Int32] for group_by(c), max(c) over an
\* Int32 column c.
C10_AggregateField ==
    /\ (call.op = "to_field" /\ call.expr.kind = "AggregateFunction") =>
           LET inner == to_field(schema, call.expr.expr, plan)
           IN  IF inner.st = "Ok"
               THEN call.ret = OkField(Field(AggregateFunction_get_name(call.expr.fun),
                                             inner.field.data_type))
               ELSE call.ret.st # "Ok"
    /\ (call.op = "create_physical_plan" /\ plan.kind = "Aggregate" /\ call.ret.st = "Ok") =>
           LET g == plan.group_exprs
               a == plan.aggregate_exprs
               s == call.ret.plan.schema
           IN  /\ call.ret.plan.kind = "HashExec"
               /\ Len(s) = Len(g) + Len(a)
               /\ \A i \in 1..Len(g) : OkField(s[i]) = to_field(schema, g[i], plan.input)
               /\ \A i \in 1..Len(a) :
                      /\ s[Len(g) + i].name = AggregateFunction_get_name(a[i].fun)
                      /\ to_field(schema, a[i].expr, plan.input).st = "Ok"
                      /\ to_field(schema, a[i].expr, plan.input).field.data_type
                             = s[Len(g) + i].data_type
    /\ (/\ call.op = "create_physical_plan"
        /\ plan = Aggregate(Scan(<<>>), <<Column("a")>>,
                            <<AggregateExpr("Max", Column("a"), FALSE)>>)
        /\ Matching(schema, "a") = <<Field("a", "Int32")>>) =>
           /\ call.ret.st = "Ok"
           /\ call.ret.plan.schema = <<Field("a", "Int32"), Field("max", "Int32")>>

\* the plan for group_by(a), max(a) over a source whose only column a is Int32
C10_Witness ==
    /\ call.op = "create_physical_plan"
    /\ plan = Aggregate(Scan(<<>>), <<Column("a")>>, <<AggregateExpr("Max", Column("a"), FALSE)>>)
    /\ schema = <<Field("a", "Int32")>>
    /\ call.ret.st = "Ok"
    /\ call.ret.plan.kind = "HashExec"

\* the outcomes of lowering the expressions of a list, one by one
LoweredEach(exprs, input) ==
    [i \in 1..Len(exprs) |-> create_physical_expr(schema, exprs[i], input)]

\* C11: lowering Column(name) gives Column(i) with i the position of name in
\* the input's schema, the field at i being what Column(name).to_field gives;
\* with no field of that name lowering returns an error value, and
\* create_physical_plan returns that error to its caller.
C11_ColumnLowering ==
    /\ (call.op = "create_physical_expr" /\ call.expr.kind = "Column") =>
           LET s == Plan_schema(schema, plan)
           IN  /\ NamedInPlan(0) => call.ret.st = "Err"
               /\ (s.st = "Ok" /\ ~NamedInPlan(0)) =>
                      /\ call.ret.st = "Ok"
                      /\ call.ret.expr.kind = "Column"
                      /\ call.ret.expr.index \in 0..(Len(s.schema) - 1)
                      /\ s.schema[call.ret.expr.index + 1].name = call.expr.name
                      /\ OkField(s.schema[call.ret.expr.index + 1])
                             = to_field(schema, call.expr, plan)
    /\ (/\ call.op = "create_physical_plan"
        /\ plan.kind \in {"Projection", "Selection"}
        /\ create_physical_plan(schema, plan.input).st = "Ok") =>
           LET exprs == IF plan.kind = "Projection" THEN plan.exprs ELSE <<plan.expr>>
               lowered == LoweredEach(exprs, plan.input)
           IN  \A i \in 1..Len(exprs) :
                   (/\ exprs[i].kind = "Column"
                    /\ lowered[i].st = "Err"
                    /\ \A j \in 1..(i - 1) : lowered[j].st = "Ok")
                       => call.ret = lowered[i]

\* lowering a column whose name two differently typed fields of the input
\* share: the index is that of the field to_field resolves to
C11_Witness ==
    /\ call.op = "create_physical_expr"
    /\ call.expr.kind = "Column"
    /\ call.ret.st = "Ok"
    /\ NamedInPlan(2)
    /\ Plan_schema(schema, plan).schema[1] # Plan_schema(schema, plan).schema[2]

\* C12: lowering is structural: a Literal keeps its tag and value, Cast and
\* BinaryExpr keep their type / operator and the positions of their lowered
\* operands, ColumnIndex(i) becomes Column(i), and Alias(e, n) lowers to what
\* e lowers to.
C12_StructuralLowering ==
    call.op = "create_physical_expr" =>
        LET e == call.expr
            r == call.ret
        IN  /\ e.kind = "Literal" =>
                   /\ r.st = "Ok"
                   /\ r.expr.kind = "Literal"
                   /\ r.expr.value = e.value
            /\ e.kind = "ColumnIndex" => r = OkExpr([kind |-> "Column", index |-> e.index])
            /\ e.kind = "Alias" => r = create_physical_expr(schema, e.expr, plan)
            /\ e.kind = "Cast" =>
                   LET inner == create_physical_expr(schema, e.expr, plan)
                   IN  IF inner.st = "Ok"
                       THEN /\ r.st = "Ok"
                            /\ r.expr.kind = "Cast"
                            /\ r.expr.expr = inner.expr
                            /\ r.expr.data_type = e.data_type
                       ELSE r.st # "Ok"
            /\ e.kind = "BinaryExpr" =>
                   LET l == create_physical_expr(schema, e.left, plan)
                       rt == create_physical_expr(schema, e.right, plan)
                   IN  IF l.st = "Ok" /\ rt.st = "Ok"
                       THEN /\ r.st = "Ok"
                            /\ r.expr.kind = "BinaryExpr"
                            /\ r.expr.op = e.op
                            /\ r.expr.left = l.expr
                            /\ r.expr.right = rt.expr
                       ELSE r.st # "Ok"
            /\ (/\ e = BinaryExpr("Add", Column("a"), Literal(ScalarInt32(1)))
                /\ plan = Scan(<<>>)
                /\ Len(schema) > 0
                /\ schema[1].name = "a") =>
                   r = OkExpr([kind |-> "BinaryExpr", op |-> "Add",
                               left |-> [kind |-> "Column", index |-> 0],
                               right |-> [kind |-> "Literal", value |-> ScalarInt32(1)]])

\* col("a") + lit(1) lowered against a scan whose second column is a
C12_Witness ==
    /\ call.op = "create_physical_expr"
    /\ call.expr = BinaryExpr("Add", Column("a"), Literal(ScalarInt32(1)))
    /\ plan = Scan(<<>>)
    /\ Len(schema) = 2
    /\ schema[1].name = "b"
    /\ call.ret.st = "Ok"
    /\ call.ret.expr.left.index = 1

\* the expression kinds create_physical_expr has no lowering for
Unsupported == {"Not", "ScalarFunction", "AggregateFunction"}

\* C13: lowering an expression that is a Not, a ScalarFunction or a bare
\* AggregateFunction, or an Aggregate whose aggregate_exprs holds an
\* expression that is not an AggregateFunction, returns an error value: it
\* neither aborts nor succeeds.
C13_UnsupportedIsError ==
    /\ (call.op = "create_physical_expr" /\ call.expr.kind \in Unsupported) =>
           call.ret.st = "Err"
    /\ (/\ call.op = "create_physical_plan"
        /\ plan.kind = "Selection"
        /\ plan.expr.kind \in Unsupported
        /\ create_physical_plan(schema, plan.input).st = "Ok") =>
           call.ret.st = "Err"
    /\ (/\ call.op = "create_physical_plan"
        /\ plan.kind = "Aggregate"
        /\ create_physical_plan(schema, plan.input).st = "Ok"
        /\ \A i \in 1..Len(plan.group_exprs) :
               create_physical_expr(schema, plan.group_exprs[i], plan.input).st = "Ok"
        /\ \E i \in 1..Len(plan.aggregate_exprs) :
               /\ plan.aggregate_exprs[i].kind # "AggregateFunction"
               /\ \A j \in 1..(i - 1) : plan.aggregate_exprs[j].kind = "AggregateFunction") =>
           call.ret.st = "Err"

\* C14: a Selection whose predicate does not resolve to a Boolean field is
\* rejected with a type error, at construction or at planning: it never
\* lowers to a SelectionExec.
C14_NonBooleanPredicateRejected ==
    (/\ call.op = "create_physical_plan"
     /\ plan.kind = "Selection"
     /\ to_field(schema, plan.expr, plan.input).st = "Ok"
     /\ to_field(schema, plan.expr, plan.input).field.data_type # "Boolean") =>
        call.ret.st # "Ok"

(***************************************************************************)
(* Evaluation of physical expressions over a batch (spec section 4.3) and  *)
(* ProjectionExec (physical_plan/projection.rs) over a ScanExec.           *)
(***************************************************************************)
OkColumn(column) == [st |-> "Ok", column |-> column]

\* batch.row_count(): the size of the columns, 0 for a batch without columns
row_count(batch) == IF Len(batch.fields) = 0 THEN 0 ELSE size(batch.fields[1])

NumericTypes == {"Int32", "Int64", "Float32", "Float64"}
IntegerTypes == {"Int32", "Int64"}
Comparisons == {"Eq", "Neq", "Gt", "GtEq", "Lt", "LtEq"}
Arithmetic == {"Add", "Subtract", "Multiply", "Divide", "Modulus"}

\* the quotient and remainder of the machine's integers, rounding to zero
quotient(l, r) ==
    LET al == IF l < 0 THEN 0 - l ELSE l
        ar == IF r < 0 THEN 0 - r ELSE r
    IN  IF (l < 0) = (r < 0) THEN al \div ar ELSE 0 - (al \div ar)
remainder(l, r) == l - (r * quotient(l, r))

\* op(left[i], right[i]) for one row; a Boolean is 1 for true and 0 for false
apply_operator(op, l, r) ==
    CASE op = "Add" -> l + r
      [] op = "Subtract" -> l - r
      [] op = "Multiply" -> l * r
      [] op = "Divide" -> quotient(l, r)
      [] op = "Modulus" -> remainder(l, r)
      [] op = "Eq" -> IF l = r THEN 1 ELSE 0
      [] op = "Neq" -> IF l # r THEN 1 ELSE 0
      [] op = "Gt" -> IF l > r THEN 1 ELSE 0
      [] op = "GtEq" -> IF l >= r THEN 1 ELSE 0
      [] op = "Lt" -> IF l < r THEN 1 ELSE 0
      [] op = "LtEq" -> IF l <= r THEN 1 ELSE 0
      [] op = "And" -> IF l = 1 /\ r = 1 THEN 1 ELSE 0
      [] op = "Or" -> IF l = 1 \/ r = 1 THEN 1 ELSE 0

\* BinaryExpr::evaluate on the two evaluated sides
evaluate_binary(op, l, r) ==
    IF size(l) # size(r) THEN Panic                     \* the lengths are asserted equal
    ELSE IF l.data_type # r.data_type THEN Err("operand types differ")
    ELSE IF op \in Arithmetic /\ l.data_type \notin NumericTypes
         THEN Err("operands are not numeric")
    ELSE IF op \in {"And", "Or"} /\ l.data_type # "Boolean"
         THEN Err("operands are not Boolean")
    ELSE IF /\ op \in {"Divide", "Modulus"}
            /\ l.data_type \in IntegerTypes
            /\ \E i \in 1..size(r) : r.vals[i] = 0
         THEN Err("division by zero")
    ELSE OkColumn([data_type |-> IF op \in Arithmetic THEN l.data_type ELSE "Boolean",
                   vals |-> [i \in 1..size(l) |-> apply_operator(op, l.vals[i], r.vals[i])]])

\* expr.evaluate(batch) for the physical Column, integer Literal and BinaryExpr
RECURSIVE evaluate(_, _)
evaluate(e, batch) ==
    CASE e.kind = "Column" ->
            IF e.index < Len(batch.fields) THEN OkColumn(field(batch, e.index)) ELSE Panic
      [] e.kind = "Literal" ->
            OkColumn([data_type |-> e.value.tag,
                      vals |-> [i \in 1..row_count(batch) |-> e.value.i]])
      [] e.kind = "BinaryExpr" ->
            LET l == evaluate(e.left, batch)
            IN  IF l.st # "Ok" THEN l
                ELSE LET r == evaluate(e.right, batch)
                     IN  IF r.st # "Ok" THEN r
                         ELSE evaluate_binary(e.op, l.column, r.column)

OkBatch(batch) == [st |-> "Ok", batch |-> batch]

\* the closure of ProjectionExec::execute's map: the batch for input batch b
projection_batch(op, b) ==
    LET fields == [i \in 1..Len(op.expr) |-> evaluate(op.expr[i], b)]
    IN  IF \E i \in 1..Len(fields) : fields[i].st # "Ok"
        THEN Panic                                      \* expect("evaluate expr failed")
        ELSE OkBatch(RecordBatch(op.schema, [i \in 1..Len(fields) |-> fields[i].column]))

OkIter(it) == [st |-> "Ok", iter |-> it]

\* ProjectionExec::execute taking the input's first batch before returning
ProjectionExec_execute_ahead(op) ==
    OkIter([kind |-> "map", input |-> [ScanExec_execute(op.input) EXCEPT !.pos = 1],
            st |-> "Running"])

\* ProjectionExec::execute: the input's sequence mapped through the closure
ProjectionExec_execute(op) ==
    OkIter([kind |-> "map", input |-> ScanExec_execute(op.input), st |-> "Running"])

\* the physical expressions and the operators that are executed
ExecExprs ==
    {<<>>,
     <<PhysicalColumn(0)>>,
     <<PhysicalColumn(1), PhysicalColumn(0)>>,
     <<PhysicalLiteral(ScalarInt32(1)), PhysicalColumn(0)>>,
     <<PhysicalBinaryExpr("Add", PhysicalColumn(0), PhysicalLiteral(ScalarInt32(1))),
       PhysicalColumn(0)>>,
     <<PhysicalColumn(0),
       PhysicalBinaryExpr("Divide", PhysicalColumn(0), PhysicalLiteral(ScalarInt32(0)))>>,
     <<PhysicalBinaryExpr("Eq", PhysicalColumn(0), PhysicalColumn(1))>>,
     <<PhysicalBinaryExpr("Multiply", PhysicalColumn(1), PhysicalColumn(0))>>}

ExecProjections == {<<"a", "b">>, <<"b">>, <<"z">>}

ExecSchemas == {<<Field("x", "Int32")>>, <<Field("x", "Int32"), Field("a", "Utf8")>>}

ProjectionExecs ==
    {ProjectionExec(ScanExec(p), s, es) :
        p \in ExecProjections, s \in ExecSchemas, es \in ExecExprs}

InitProjection ==
    /\ schema \in Schemas
    /\ data \in DataFor(schema)
    /\ plan = NoPlan
    /\ phys \in ProjectionExecs
    /\ call = NoCall
    /\ iter = NoIter
    /\ emitted = <<>>

\* projection.execute(): a new sequence over a new sequence of the input
ExecuteProjection ==
    /\ phys.kind = "ProjectionExec"
    /\ call' = [op |-> "execute", ret |-> [st |-> ProjectionExec_execute(phys).st]]
    /\ iter' = ProjectionExec_execute(phys).iter
    /\ emitted' = <<>>
    /\ UNCHANGED <<schema, data, plan, phys>>

\* next() on the mapped sequence: the input's next batch through the closure,
\* the end of the input, or the panic of the closure, which ends the caller
PullProjection ==
    /\ iter.kind = "map"
    /\ iter.st = "Running"
    /\ IF iter.input.pos < Len(data)
       THEN LET b == scan_batch(schema, iter.input.projection_indices,
                                data[iter.input.pos + 1])
                r == projection_batch(phys, b)
            IN  /\ iter' = [iter EXCEPT !.input.pos = @ + 1,
                                        !.st = IF r.st = "Ok" THEN "Running" ELSE r.st]
                /\ emitted' = IF r.st = "Ok" THEN Append(emitted, r.batch) ELSE emitted
       ELSE /\ iter' = [iter EXCEPT !.input.done = TRUE, !.st = "Done"]
            /\ UNCHANGED emitted
    /\ UNCHANGED <<schema, data, plan, phys, call>>

NextProjection ==
    \/ ExecuteProjection
    \/ PullProjection

SpecProjection == InitProjection /\ [][NextProjection]_vars

\* the k-th batch the ScanExec under the projection produces
InputBatch(k) ==
    scan_batch(schema, projection_indices(schema, phys.input.projection), data[k])

\* the input batches on which every projection expression evaluates
Evaluates(k) ==
    \A i \in 1..Len(phys.expr) : evaluate(phys.expr[i], InputBatch(k)).st = "Ok"

\* the sequence has one batch per input batch pulled, in the input's order,
\* while every expression evaluates on the input batches pulled
OneBatchPerInputBatch ==
    (\A k \in 1..iter.input.pos : Evaluates(k)) =>
        /\ iter.st \in {"Running", "Done"}
        /\ Len(emitted) = iter.input.pos
        /\ iter.st = "Done" => Len(emitted) = Len(data)

\* the k-th batch carries the operator's stored schema and one column per
\* expression, column i being exprs[i] evaluated on the k-th input batch
ColumnsEvaluated(k) ==
    /\ emitted[k].schema = phys.schema
    /\ Len(emitted[k].fields) = Len(phys.expr)
    /\ \A i \in 1..Len(phys.expr) :
           /\ OkColumn(emitted[k].fields[i]) = evaluate(phys.expr[i], InputBatch(k))
           /\ size(emitted[k].fields[i]) = row_count(InputBatch(k))

\* C15: the sequence ProjectionExec.execute() returns has one batch per
\* input batch, in the input's order; the k-th batch carries the operator's
\* stored schema and one column per expression, column i being exprs[i]
\* evaluated on the k-th input batch, and has the row count of that input
\* batch.
C15_ProjectionExecute ==
    iter.kind = "map" =>
        /\ OneBatchPerInputBatch
        /\ \A k \in 1..Len(emitted) :
               /\ ColumnsEvaluated(k)
               /\ row_count(emitted[k]) = row_count(InputBatch(k))

\* the input batches on which some projection expression returns an error
\* value, the expressions before it evaluating
FailsOn(k) ==
    \E i \in 1..Len(phys.expr) :
        /\ evaluate(phys.expr[i], InputBatch(k)).st = "Err"
        /\ \A j \in 1..(i - 1) : evaluate(phys.expr[j], InputBatch(k)).st = "Ok"

\* C16: when a projection expression fails on an input batch, the sequence
\* ends with an error value for the caller: no batch is emitted for that
\* input batch and the program is not aborted.
C16_EvaluationFailureIsError ==
    iter.kind = "map" =>
        \A k \in 1..iter.input.pos :
            (FailsOn(k) /\ \A j \in 1..(k - 1) : Evaluates(j)) =>
                /\ Len(emitted) = k - 1
                /\ iter.st = "Err"

(***************************************************************************)
(* The hash aggregate operator (spec section 4.4) over a ScanExec, built   *)
(* by the planner from a logical Aggregate.                                *)
(***************************************************************************)
\* the accumulator of one aggregate slot, as it is when the key is first seen
Accumulator_new(fun) == [fun |-> fun, s |-> 0, n |-> 0, set |-> {}]

\* accumulator.accumulate(v)
accumulate(acc, v) ==
    CASE acc.fun = "Sum" -> [acc EXCEPT !.s = @ + v]
      [] acc.fun = "Min" -> [acc EXCEPT !.s = IF acc.n = 0 \/ v < @ THEN v ELSE @, !.n = @ + 1]
      [] acc.fun = "Max" -> [acc EXCEPT !.s = IF acc.n = 0 \/ v > @ THEN v ELSE @, !.n = @ + 1]
      [] acc.fun = "Avg" -> [acc EXCEPT !.s = @ + v, !.n = @ + 1]
      [] acc.fun = "Count" -> [acc EXCEPT !.n = @ + 1]
      [] acc.fun = "CountDistinct" -> [acc EXCEPT !.set = @ \cup {v}]

\* the exact quotient sum / n of an average
Quotient(sum, n) == [num |-> sum, den |-> n]

\* accumulator.final_value()
final_value(acc) ==
    CASE acc.fun \in {"Sum", "Min", "Max"} -> acc.s
      [] acc.fun = "Avg" -> Quotient(acc.s, acc.n)
      [] acc.fun = "Count" -> acc.n
      [] acc.fun = "CountDistinct" -> Cardinality(acc.set)

\* the hash table: the keys in insertion order, each with its accumulators
EmptyTable == [keys |-> <<>>, accs |-> <<>>]

\* the slot of a key in the table, 0 when the key is absent
lookup(table, k) ==
    IF \E g \in 1..Len(table.keys) : table.keys[g] = k
    THEN CHOOSE g \in 1..Len(table.keys) : table.keys[g] = k
    ELSE 0

\* step 3 of Build with a table that puts a new key before the others
build_row_insert_first(table, aggr_exprs, k, args) ==
    LET g == lookup(table, k)
        inserted == IF g # 0 THEN table
                    ELSE [keys |-> <<k>> \o table.keys,
                          accs |-> <<[j \in 1..Len(aggr_exprs) |->
                                          Accumulator_new(aggr_exprs[j].fun)]>> \o table.accs]
        slot == IF g # 0 THEN g ELSE 1
    IN  [inserted EXCEPT !.accs[slot] =
             [j \in 1..Len(aggr_exprs) |-> accumulate(@[j], args[j])]]

\* step 3 of Build for one row: the key's accumulators, fresh if the key is
\* absent, each given the row's value of its slot
build_row(table, aggr_exprs, k, args) ==
    LET g == lookup(table, k)
        inserted == IF g # 0 THEN table
                    ELSE [keys |-> Append(table.keys, k),
                          accs |-> Append(table.accs,
                                          [j \in 1..Len(aggr_exprs) |->
                                               Accumulator_new(aggr_exprs[j].fun)])]
        slot == IF g # 0 THEN g ELSE Len(inserted.keys)
    IN  [inserted EXCEPT !.accs[slot] =
             [j \in 1..Len(aggr_exprs) |-> accumulate(@[j], args[j])]]

\* step 3 of Build for the rows r..n of a batch with group columns G and
\* argument columns A
RECURSIVE build_rows(_, _, _, _, _, _)
build_rows(table, aggr_exprs, G, A, r, n) ==
    IF r > n THEN table
    ELSE build_rows(build_row(table, aggr_exprs,
                              [i \in 1..Len(G) |-> G[i].column.vals[r]],
                              [j \in 1..Len(A) |-> A[j].column.vals[r]]),
                    aggr_exprs, G, A, r + 1, n)

OkTable(table) == [st |-> "Ok", table |-> table]

\* Build for one input batch
build_batch(op, table, batch) ==
    LET G == [i \in 1..Len(op.group_exprs) |-> evaluate(op.group_exprs[i], batch)]
        A == [j \in 1..Len(op.aggr_exprs) |-> evaluate(op.aggr_exprs[j].expr, batch)]
    IN  IF \E i \in 1..Len(G) : G[i].st # "Ok" THEN Err("group expression failed")
        ELSE IF \E j \in 1..Len(A) : A[j].st # "Ok" THEN Err("aggregate expression failed")
        ELSE OkTable(build_rows(table, op.aggr_exprs, G, A, 1, row_count(batch)))

\* Emit: the key columns in insertion order, then one column per aggregate
emit_batch(op, table) ==
    LET groups == Len(op.group_exprs)
        rows == Len(table.keys)
    IN  RecordBatch(op.schema,
            [c \in 1..(groups + Len(op.aggr_exprs)) |->
                 [data_type |-> IF c <= Len(op.schema) THEN op.schema[c].data_type ELSE "Int32",
                  vals |-> [g \in 1..rows |->
                                IF c <= groups THEN table.keys[g][c]
                                ELSE final_value(table.accs[g][c - groups])]]])

\* HashExec::execute: the sequence before its first pull
HashExec_execute(op) ==
    OkIter([kind |-> "hash", input |-> ScanExec_execute(op.input), phase |-> "Initial",
            table |-> EmptyTable, consumed |-> <<>>])

\* the rows, stored batches and plans of the aggregations that are executed
HashSchema == <<Field("a", "Int32"), Field("b", "Int32")>>
HashRows == {<<1, 1>>, <<2, 1>>}

HashBatch(s, rows) ==
    RecordBatch(s, [j \in 1..Len(s) |->
                        [data_type |-> s[j].data_type,
                         vals |-> [i \in 1..Len(rows) |-> rows[i][j]]]])

HashData ==
    SeqsUpTo({HashBatch(HashSchema, rows) : rows \in SeqsUpTo(HashRows, MaxRows)}, MaxBatches)

HashPlans ==
    {Aggregate(Scan(<<"b", "a">>), <<Column("a")>>,
               <<AggregateExpr("Max", Column("a"), FALSE),
                 AggregateExpr("Count", Column("b"), FALSE),
                 AggregateExpr("Sum", Column("a"), FALSE)>>),
     Aggregate(Scan(<<"a", "b">>), <<Column("b")>>,
               <<AggregateExpr("Sum", Column("a"), FALSE),
                 AggregateExpr("Min", Column("a"), FALSE),
                 AggregateExpr("Max", Column("a"), FALSE),
                 AggregateExpr("Avg", Column("a"), FALSE),
                 AggregateExpr("Count", Column("a"), FALSE),
                 AggregateExpr("CountDistinct", Column("a"), FALSE)>>),
     Aggregate(Scan(<<"a", "b">>), <<Column("b"), Column("a")>>,
               <<AggregateExpr("Count", Column("a"), FALSE),
                 AggregateExpr("Sum", Column("b"), FALSE)>>),
     Aggregate(Scan(<<"a">>), <<>>,
               <<AggregateExpr("Sum", Column("a"), FALSE),
                 AggregateExpr("CountDistinct", Column("a"), FALSE),
                 AggregateExpr("Min", Column("a"), FALSE)>>)}

\* the operator is the one the planner builds for the logical plan
InitHash ==
    /\ schema = HashSchema
    /\ data \in HashData
    /\ plan \in HashPlans
    /\ create_physical_plan(schema, plan).st = "Ok"
    /\ phys = create_physical_plan(schema, plan).plan
    /\ call = [op |-> "none", previous |-> <<>>]
    /\ iter = NoIter
    /\ emitted = <<>>

\* hash.execute(): a new sequence; the caller keeps what the sequence before
\* it gave, when that one had reached its end
ExecuteHash ==
    /\ phys.kind = "HashExec"
    /\ call' = [op |-> "execute",
                previous |-> IF iter.kind = "hash" /\ iter.phase = "Done"
                             THEN emitted ELSE call.previous]
    /\ iter' = HashExec_execute(phys).iter
    /\ emitted' = <<>>
    /\ UNCHANGED <<schema, data, plan, phys>>

\* the first pull begins the Build phase
HashStart ==
    /\ iter.kind = "hash"
    /\ iter.phase = "Initial"
    /\ iter' = [iter EXCEPT !.phase = "Build"]
    /\ UNCHANGED <<schema, data, plan, phys, call, emitted>>

\* Build: the next input batch goes into the table; at the end of the input
\* the operator turns to Emit
HashBuild ==
    /\ iter.kind = "hash"
    /\ iter.phase = "Build"
    /\ IF iter.input.pos < Len(data)
       THEN LET b == scan_batch(schema, iter.input.projection_indices,
                                data[iter.input.pos + 1])
                r == build_batch(phys, iter.table, b)
            IN  iter' = [iter EXCEPT !.input.pos = @ + 1,
                                     !.consumed = Append(@, iter.input.pos + 1),
                                     !.phase = IF r.st = "Ok" THEN "Build" ELSE "Failed",
                                     !.table = IF r.st = "Ok" THEN r.table ELSE @]
       ELSE iter' = [iter EXCEPT !.input.done = TRUE, !.phase = "Emit"]
    /\ UNCHANGED <<schema, data, plan, phys, call, emitted>>

\* Emit: the one output batch
HashEmit ==
    /\ iter.kind = "hash"
    /\ iter.phase = "Emit"
    /\ emitted' = Append(emitted, emit_batch(phys, iter.table))
    /\ iter' = [iter EXCEPT !.phase = "Done"]
    /\ UNCHANGED <<schema, data, plan, phys, call>>

NextHash ==
    \/ ExecuteHash
    \/ HashStart
    \/ HashBuild
    \/ HashEmit

SpecHash == InitHash /\ [][NextHash]_vars

\* the phases in their order
PhaseRank(phase) ==
    CASE phase = "Initial" -> 0
      [] phase = "Build" -> 1
      [] phase = "Emit" -> 2
      [] phase = "Done" -> 3
      [] phase = "Failed" -> 3

\* a step of the sequence, or a new execute()
PhaseStep ==
    \/ iter'.kind = "hash" /\ iter'.phase = "Initial" /\ emitted' = <<>>
    \/ /\ iter.kind = "hash"
       /\ iter'.kind = "hash"
       /\ PhaseRank(iter'.phase) \in {PhaseRank(iter.phase), PhaseRank(iter.phase) + 1}

\* what holds of the sequence in each phase
PhaseInvariant ==
    iter.kind = "hash" =>
        /\ iter.phase \in {"Initial", "Build", "Emit", "Done"}
        /\ iter.consumed = [k \in 1..iter.input.pos |-> k]
        /\ iter.phase \in {"Initial", "Build", "Emit"} => emitted = <<>>
        /\ iter.phase = "Initial" => iter.consumed = <<>>
        /\ iter.phase \in {"Emit", "Done"} => iter.consumed = [k \in 1..Len(data) |-> k]
        /\ iter.phase = "Done" =>
               /\ Len(emitted) = 1
               /\ Len(emitted[1].fields)
                      = Len(plan.group_exprs) + Len(plan.aggregate_exprs)
               /\ Len(emitted[1].fields) = Len(phys.schema)
               /\ \A c \in 1..Len(emitted[1].fields) :
                      size(emitted[1].fields[c]) = size(emitted[1].fields[1])

\* C17: the hash aggregate goes through Initial, Build, Emit in that order:
\* it consumes every input batch once, in order, emits nothing before the
\* input is exhausted, then emits exactly one batch (also over no batches
\* or no rows) and ends; the batch has one column per group expression
\* followed by one column per aggregate expression.
C17_HashPhases == []PhaseInvariant /\ [][PhaseStep]_vars

\* the end of an aggregation over an input without batches
C17_Witness ==
    /\ iter.kind = "hash"
    /\ iter.phase = "Done"
    /\ data = <<>>
    /\ Len(emitted) = 1
    /\ Len(plan.group_exprs) = 1
    /\ Len(emitted[1].fields) = Len(plan.aggregate_exprs) + 1
    /\ size(emitted[1].fields[1]) = 0

\* the rows of the stored batches, in stored order: <<batch, row>>
RECURSIVE InputRows(_)
InputRows(k) ==
    IF k = 0 THEN <<>>
    ELSE InputRows(k - 1) \o [r \in 1..row_count(data[k]) |-> <<k, r>>]

\* the stored value of the column a logical Column names, at a row
ValueAt(e, row) == data[row[1]].fields[FirstNamed(schema, e.name)].vals[row[2]]

\* the group key of a row of the input
KeyAt(row) == [i \in 1..Len(plan.group_exprs) |-> ValueAt(plan.group_exprs[i], row)]

\* the values slot j receives for key k, in input order
ValuesFor(k, j) ==
    LET rows == SelectSeq(InputRows(Len(data)), LAMBDA row : KeyAt(row) = k)
    IN  [n \in 1..Len(rows) |-> ValueAt(plan.aggregate_exprs[j].expr, rows[n])]

RECURSIVE SumOf(_)
SumOf(vs) == IF vs = <<>> THEN 0 ELSE Head(vs) + SumOf(Tail(vs))

RangeOf(vs) == {vs[n] : n \in 1..Len(vs)}

\* what an aggregate function is of a non-empty sequence of values
Aggregated(fun, vs) ==
    CASE fun = "Sum" -> SumOf(vs)
      [] fun = "Min" -> CHOOSE v \in RangeOf(vs) : \A w \in RangeOf(vs) : v <= w
      [] fun = "Max" -> CHOOSE v \in RangeOf(vs) : \A w \in RangeOf(vs) : v >= w
      [] fun = "Avg" -> Quotient(SumOf(vs), Len(vs))
      [] fun = "Count" -> Len(vs)
      [] fun = "CountDistinct" -> Cardinality(RangeOf(vs))

\* the key of a row of the output batch
OutputKey(batch, g) == [i \in 1..Len(plan.group_exprs) |-> batch.fields[i].vals[g]]

\* the rows of the output batch
OutputRows(batch) ==
    IF Len(batch.fields) = 0 THEN {} ELSE 1..size(batch.fields[1])

\* C18: in the output, the value of aggregate slot j in the row of key k is
\* the aggregate function of the values of the slot's argument over exactly
\* the input rows whose key is k: the sum for Sum, the least for Min, the
\* greatest for Max, the number of rows for Count, the number of different
\* values for CountDistinct and sum / n for Avg; max(c) grouped by c is c.
C18_AggregateValues ==
    (iter.kind = "hash" /\ iter.phase = "Done") =>
        LET out == emitted[1]
            groups == Len(plan.group_exprs)
        IN  \A g \in OutputRows(out) :
                \A j \in 1..Len(plan.aggregate_exprs) :
                    LET vs == ValuesFor(OutputKey(out, g), j)
                    IN  /\ vs # <<>>
                        /\ out.fields[groups + j].vals[g]
                               = Aggregated(plan.aggregate_exprs[j].fun, vs)
                        /\ (/\ groups = 1
                            /\ plan.aggregate_exprs[j].fun = "Max"
                            /\ plan.aggregate_exprs[j].expr = plan.group_exprs[1]) =>
                               out.fields[groups + j].vals[g] = out.fields[1].vals[g]

\* a key whose rows lie in two batches and carry two values twice over
C18_Witness ==
    /\ iter.kind = "hash"
    /\ iter.phase = "Done"
    /\ Len(data) = 2
    /\ Len(phys.aggr_exprs) = 6
    /\ size(emitted[1].fields[1]) = 1
    /\ emitted[1].fields[2].vals[1] = 5
    /\ emitted[1].fields[5].vals[1] = Quotient(5, 3)
    /\ emitted[1].fields[7].vals[1] = 2

\* the first row of the input with the key of an output row
FirstRowOf(k) ==
    LET rows == InputRows(Len(data))
    IN  CHOOSE n \in 1..Len(rows) :
            /\ KeyAt(rows[n]) = k
            /\ \A n2 \in 1..(n - 1) : KeyAt(rows[n2]) # k

\* C19: the output has exactly one row per distinct group key of the input,
\* the rows in the order in which the keys first occur in the input (batch
\* order, then row order); executing the aggregate again over the same
\* input gives the same output.
C19_GroupOrder ==
    (iter.kind = "hash" /\ iter.phase = "Done") =>
        LET out == emitted[1]
            rows == InputRows(Len(data))
            keys == {KeyAt(rows[n]) : n \in 1..Len(rows)}
        IN  /\ Len(plan.group_exprs) > 0 =>
                   /\ {OutputKey(out, g) : g \in OutputRows(out)} = keys
                   /\ Cardinality(OutputRows(out)) = Cardinality(keys)
                   /\ \A g, h \in OutputRows(out) :
                          g < h => FirstRowOf(OutputKey(out, g)) < FirstRowOf(OutputKey(out, h))
            /\ \A c \in 1..Len(out.fields) : size(out.fields[c]) = Cardinality(keys)
            /\ call.previous # <<>> => emitted = call.previous

\* a second execution of an aggregate whose keys first occur in the order
\* 2, 1, the second key's first row lying in the second batch
C19_Witness ==
    /\ iter.kind = "hash"
    /\ iter.phase = "Done"
    /\ call.previous # <<>>
    /\ Len(plan.group_exprs) = 1
    /\ Len(data) = 2
    /\ row_count(data[1]) = 1
    /\ KeyAt(<<1, 1>>) = <<2>>
    /\ size(emitted[1].fields[1]) = 2
    /\ emitted[1].fields[1].vals[2] = 1

(***************************************************************************)
(* The order and equality of logical expressions: the derived PartialOrd   *)
(* and PartialEq of Expr and its parts over ScalarValue's own              *)
(* (logical_plan/expr.rs).                                                 *)
(***************************************************************************)
\* Option<Ordering>: "Less", "Equal", "Greater", or "None"
cmp_int(i, o) == IF i < o THEN "Less" ELSE IF i = o THEN "Equal" ELSE "Greater"

\* the place of x in a sequence that lists a type's values in their order
IndexOf(order, x) == CHOOSE i \in 1..Len(order) : order[i] = x

\* the strings of the model in the order of their bytes
StringOrder == <<"NOT", "a", "b", "m", "not", "sqrt", "x", "z">>
cmp_string(s, o) == cmp_int(IndexOf(StringOrder, s), IndexOf(StringOrder, o))

\* OrderedFloat: NaN equals NaN and is greater than every number
cmp_float(f, o) ==
    IF f.nan /\ o.nan THEN "Equal"
    ELSE IF f.nan THEN "Greater"
    ELSE IF o.nan THEN "Less"
    ELSE cmp_int(f.tenths, o.tenths)

\* the variants of the enums in declaration order
OperatorOrder == <<"And", "Or", "Eq", "Neq", "Gt", "GtEq", "Lt", "LtEq",
                   "Add", "Subtract", "Multiply", "Divide", "Modulus">>
AggregateFunctionOrder == <<"Sum", "Min", "Max", "Avg", "Count", "CountDistinct">>
ExprOrder == <<"Column", "ColumnIndex", "Literal", "Not", "Cast", "BinaryExpr", "Alias",
               "ScalarFunction", "AggregateFunction">>
DataTypeOrder == <<"Boolean", "Int32", "Int64", "Float32", "Float64", "Utf8">>
ScalarOrder == <<"String", "Int32", "Int64", "Float32", "Float64">>

cmp_enum(order, v, o) == cmp_int(IndexOf(order, v), IndexOf(order, o))
cmp_bool(b, o) == cmp_int(IF b THEN 1 ELSE 0, IF o THEN 1 ELSE 0)

\* the derived comparison of a later field, reached when the fields before
\* it are equal
then_cmp(first, second) == IF first = "Equal" THEN second ELSE first

\* ScalarValue::partial_cmp ordering different tags by their declaration
ScalarValue_partial_cmp_by_tag(v, o) ==
    CASE v.tag # o.tag -> cmp_enum(ScalarOrder, v.tag, o.tag)
      [] v.tag = "String" /\ o.tag = "String" -> cmp_string(v.s, o.s)
      [] v.tag \in {"Int32", "Int64"} /\ o.tag = v.tag -> cmp_int(v.i, o.i)
      [] v.tag \in {"Float32", "Float64"} /\ o.tag = v.tag -> cmp_float(v.f, o.f)

\* ScalarValue::partial_cmp
ScalarValue_partial_cmp(v, o) ==
    CASE v.tag = "String" /\ o.tag = "String" -> cmp_string(v.s, o.s)
      [] v.tag = "Int32" /\ o.tag = "Int32" -> cmp_int(v.i, o.i)
      [] v.tag = "Int64" /\ o.tag = "Int64" -> cmp_int(v.i, o.i)
      [] v.tag = "Float32" /\ o.tag = "Float32" -> cmp_float(v.f, o.f)
      [] v.tag = "Float64" /\ o.tag = "Float64" -> cmp_float(v.f, o.f)
      [] OTHER -> "None"

\* ScalarValue::eq
ScalarValue_eq(v, o) ==
    CASE v.tag = "String" /\ o.tag = "String" -> v.s = o.s
      [] v.tag = "Int32" /\ o.tag = "Int32" -> v.i = o.i
      [] v.tag = "Int64" /\ o.tag = "Int64" -> v.i = o.i
      [] v.tag = "Float32" /\ o.tag = "Float32" -> cmp_float(v.f, o.f) = "Equal"
      [] v.tag = "Float64" /\ o.tag = "Float64" -> cmp_float(v.f, o.f) = "Equal"
      [] OTHER -> FALSE

RECURSIVE Expr_partial_cmp(_, _), Vec_partial_cmp(_, _, _), Expr_eq(_, _)

\* the derived PartialOrd of Expr: the variants in declaration order, then
\* the fields of the variant's struct in declaration order
Expr_partial_cmp(a, b) ==
    CASE a.kind # b.kind -> cmp_enum(ExprOrder, a.kind, b.kind)
      [] a.kind = "Column" /\ b.kind = "Column" -> cmp_string(a.name, b.name)
      [] a.kind = "ColumnIndex" /\ b.kind = "ColumnIndex" -> cmp_int(a.index, b.index)
      [] a.kind = "Literal" /\ b.kind = "Literal" -> ScalarValue_partial_cmp(a.value, b.value)
      [] a.kind = "Not" /\ b.kind = "Not" ->
            then_cmp(cmp_string(a.name, b.name),
                     then_cmp(cmp_string(a.op, b.op), Expr_partial_cmp(a.expr, b.expr)))
      [] a.kind = "Cast" /\ b.kind = "Cast" ->
            then_cmp(Expr_partial_cmp(a.expr, b.expr),
                     cmp_enum(DataTypeOrder, a.data_type, b.data_type))
      [] a.kind = "BinaryExpr" /\ b.kind = "BinaryExpr" ->
            then_cmp(cmp_enum(OperatorOrder, a.op, b.op),
                     then_cmp(Expr_partial_cmp(a.left, b.left),
                              Expr_partial_cmp(a.right, b.right)))
      [] a.kind = "Alias" /\ b.kind = "Alias" ->
            then_cmp(Expr_partial_cmp(a.expr, b.expr), cmp_string(a.alias, b.alias))
      [] a.kind = "ScalarFunction" /\ b.kind = "ScalarFunction" ->
            then_cmp(cmp_string(a.name, b.name),
                     then_cmp(Vec_partial_cmp(a.args, b.args, 1),
                              cmp_enum(DataTypeOrder, a.return_type, b.return_type)))
      [] a.kind = "AggregateFunction" /\ b.kind = "AggregateFunction" ->
            then_cmp(cmp_enum(AggregateFunctionOrder, a.fun, b.fun),
                     then_cmp(Expr_partial_cmp(a.expr, b.expr),
                              cmp_bool(a.is_distinct, b.is_distinct)))

\* Vec<Expr>::partial_cmp from element i on: element by element, then by length
Vec_partial_cmp(xs, ys, i) ==
    IF i > Len(xs) \/ i > Len(ys) THEN cmp_int(Len(xs), Len(ys))
    ELSE then_cmp(Expr_partial_cmp(xs[i], ys[i]), Vec_partial_cmp(xs, ys, i + 1))

\* the derived PartialEq of Expr
Expr_eq(a, b) ==
    CASE a.kind # b.kind -> FALSE
      [] a.kind = "Column" /\ b.kind = "Column" -> a.name = b.name
      [] a.kind = "ColumnIndex" /\ b.kind = "ColumnIndex" -> a.index = b.index
      [] a.kind = "Literal" /\ b.kind = "Literal" -> ScalarValue_eq(a.value, b.value)
      [] a.kind = "Not" /\ b.kind = "Not" ->
            a.name = b.name /\ a.op = b.op /\ Expr_eq(a.expr, b.expr)
      [] a.kind = "Cast" /\ b.kind = "Cast" ->
            Expr_eq(a.expr, b.expr) /\ a.data_type = b.data_type
      [] a.kind = "BinaryExpr" /\ b.kind = "BinaryExpr" ->
            a.op = b.op /\ Expr_eq(a.left, b.left) /\ Expr_eq(a.right, b.right)
      [] a.kind = "Alias" /\ b.kind = "Alias" ->
            Expr_eq(a.expr, b.expr) /\ a.alias = b.alias
      [] a.kind = "ScalarFunction" /\ b.kind = "ScalarFunction" ->
            /\ a.name = b.name
            /\ Len(a.args) = Len(b.args)
            /\ \A i \in 1..Len(a.args) : Expr_eq(a.args[i], b.args[i])
            /\ a.return_type = b.return_type
      [] a.kind = "AggregateFunction" /\ b.kind = "AggregateFunction" ->
            a.fun = b.fun /\ Expr_eq(a.expr, b.expr) /\ a.is_distinct = b.is_distinct

\* a < b, a > b
Expr_lt(a, b) == Expr_partial_cmp(a, b) = "Less"
Expr_gt(a, b) == Expr_partial_cmp(a, b) = "Greater"

\* the expressions that are compared
OrderExprs ==
    LeafExprs \cup NestedExprs
        \cup {Literal(ScalarFloat64(13)), Literal(ScalarString("b")), Literal(ScalarInt32(2)),
              BinaryExpr("Add", Column("a"), Literal(ScalarInt32(1))),
              BinaryExpr("Add", Column("a"), Literal(ScalarInt32(2))),
              BinaryExpr("Add", Column("a"), Literal(ScalarString("a"))),
              BinaryExpr("Add", Literal(ScalarInt64(2)), Column("a")),
              BinaryExpr("Eq", Column("b"), Literal(ScalarInt32(1))),
              Not(BinaryExpr("Add", Column("a"), Literal(ScalarInt32(2)))),
              Not(Literal(ScalarInt32(1))),
              Not(Literal(ScalarNaN64)),
              Cast(Column("a"), "Int64"),
              Cast(Column("a"), "Utf8"),
              Cast(Literal(ScalarInt32(1)), "Int64"),
              Alias(Column("a"), "x"),
              Alias(Literal(ScalarString("a")), "m"),
              ScalarFunction("sqrt", <<Column("a")>>, "Float64"),
              ScalarFunction("sqrt", <<Literal(ScalarInt32(1)), Column("z")>>, "Float64"),
              AggregateExpr("Max", Column("a"), FALSE),
              AggregateExpr("Max", Column("a"), TRUE),
              AggregateExpr("Min", Literal(ScalarInt64(2)), FALSE)}

InitOrder ==
    /\ schema = <<>>
    /\ data = <<>>
    /\ plan = NoPlan
    /\ phys = NoPlan
    /\ call = NoCall
    /\ iter = NoIter
    /\ emitted = <<>>

\* a.partial_cmp(&b) and a == b, with the comparison the other way round
Compare(a, b) ==
    /\ call.op = "none"
    /\ call' = [op |-> "partial_cmp", a |-> a, b |-> b,
                ret |-> Expr_partial_cmp(a, b),
                eq |-> Expr_eq(a, b),
                reverse |-> Expr_partial_cmp(b, a)]
    /\ UNCHANGED <<schema, data, plan, phys, iter, emitted>>

NextOrder ==
    \/ \E a, b \in OrderExprs : Compare(a, b)
    \/ Return

SpecOrder == InitOrder /\ [][NextOrder]_vars

\* how many of a < b, a == b, a > b hold of the comparison in call
HoldingOf ==
    Cardinality({r \in {"lt", "eq", "gt"} :
                    \/ r = "lt" /\ call.ret = "Less"
                    \/ r = "eq" /\ call.eq
                    \/ r = "gt" /\ call.ret = "Greater"})

\* a < b iff b > a; different variants compare in declaration order
OrderShape ==
    /\ call.ret = "Less" <=> call.reverse = "Greater"
    /\ call.ret = "Greater" <=> call.reverse = "Less"
    /\ call.a.kind # call.b.kind =>
           (call.ret = "Less" <=> IndexOf(ExprOrder, call.a.kind) < IndexOf(ExprOrder, call.b.kind))
    /\ (call.a.kind = "Not" /\ call.b.kind = "BinaryExpr") => call.ret = "Less"
    /\ (/\ call.a = BinaryExpr("Add", Column("a"), Literal(ScalarInt32(1)))
        /\ call.b = BinaryExpr("Add", Column("a"), Literal(ScalarInt32(2)))) => call.ret = "Less"

\* C20 as stated: any two expressions are comparable, exactly one of a < b,
\* a == b, a > b holding, literals of different scalar tags included.
C20_TotalOrder ==
    call.op = "partial_cmp" => (HoldingOf = 1 /\ OrderShape)

\* the scalar tags of the literals in an expression
RECURSIVE TagsIn(_)
TagsIn(e) ==
    CASE e.kind \in {"Column", "ColumnIndex"} -> {}
      [] e.kind = "Literal" -> {e.value.tag}
      [] e.kind \in {"Not", "Cast", "Alias", "AggregateFunction"} -> TagsIn(e.expr)
      [] e.kind = "BinaryExpr" -> TagsIn(e.left) \cup TagsIn(e.right)
      [] e.kind = "ScalarFunction" -> UNION {TagsIn(e.args[i]) : i \in 1..Len(e.args)}

\* C20 amended: the order is partial.  Two literals of different scalar tags
\* are neither less, equal nor greater, whichever way round; at most one of
\* a < b, a == b, a > b holds of any two expressions, and exactly one when
\* the literals in them all have one tag; a < b iff b > a; different
\* variants compare in declaration order (Not before BinaryExpr), equal
\* variants by their components, so col(a)+lit(1) < col(a)+lit(2).
C20_PartialOrder ==
    call.op = "partial_cmp" =>
        /\ HoldingOf <= 1
        /\ Cardinality(TagsIn(call.a) \cup TagsIn(call.b)) <= 1 => HoldingOf = 1
        /\ (/\ call.a.kind = "Literal"
            /\ call.b.kind = "Literal"
            /\ call.a.value.tag # call.b.value.tag) =>
               /\ call.ret = "None"
               /\ call.reverse = "None"
               /\ ~call.eq
        /\ call.ret = "None" <=> call.reverse = "None"
        /\ call.eq <=> call.ret = "Equal"
        /\ OrderShape

\* col(a)+lit(1) compared with col(a)+lit("a"): the comparison reaches two
\* literals of different tags and is undefined
C20_Witness ==
    /\ call.op = "partial_cmp"
    /\ call.a = BinaryExpr("Add", Column("a"), Literal(ScalarInt32(1)))
    /\ call.b = BinaryExpr("Add", Column("a"), Literal(ScalarString("a")))
    /\ call.ret = "None"
    /\ ~call.eq

(***************************************************************************)
(* ScalarValue::eq and ScalarValue::hash (logical_plan/expr.rs).  A float  *)
(* here also carries what tells apart two floats that compare equal: the   *)
(* payload of a NaN and the sign of a zero.                                *)
(***************************************************************************)
FloatBits(nan, tenths, payload, negative) ==
    [nan |-> nan, tenths |-> tenths, payload |-> payload, negative |-> negative]

\* the floats that are compared and hashed: two NaNs, the two zeros, numbers
FloatValues ==
    {FloatBits(TRUE, 0, 1, FALSE), FloatBits(TRUE, 0, 2, TRUE),
     FloatBits(FALSE, 0, 0, FALSE), FloatBits(FALSE, 0, 0, TRUE),
     FloatBits(FALSE, 12, 0, FALSE), FloatBits(FALSE, 13, 0, FALSE)}

ScalarValues ==
    {ScalarString("a"), ScalarString("b"), ScalarInt32(1), ScalarInt32(2),
     ScalarInt64(1), ScalarInt64(2)}
        \cup {[tag |-> "Float32", f |-> f] : f \in FloatValues}
        \cup {[tag |-> "Float64", f |-> f] : f \in FloatValues}

\* what a hash call writes to the hasher
HashString(s) == [write |-> "str", s |-> s]
HashInt(width, i) == [write |-> "int", width |-> width, i |-> i]
HashBits(f) == [write |-> "u64", bits |-> f]

\* OrderedFloat::hash: one bit pattern for every NaN and one for both zeros
OrderedFloat_hash(f) ==
    IF f.nan THEN HashBits(FloatBits(TRUE, 0, 0, FALSE))
    ELSE IF f.tenths = 0 THEN HashBits(FloatBits(FALSE, 0, 0, FALSE))
    ELSE HashBits(f)

\* ScalarValue::hash writing the bits of the float as they are
ScalarValue_hash_raw_bits(v) ==
    CASE v.tag = "String" -> HashString(v.s)
      [] v.tag = "Int32" -> HashInt(32, v.i)
      [] v.tag = "Int64" -> HashInt(64, v.i)
      [] v.tag = "Float32" -> HashBits(v.f)
      [] v.tag = "Float64" -> HashBits(v.f)

\* ScalarValue::hash
ScalarValue_hash(v) ==
    CASE v.tag = "String" -> HashString(v.s)
      [] v.tag = "Int32" -> HashInt(32, v.i)
      [] v.tag = "Int64" -> HashInt(64, v.i)
      [] v.tag = "Float32" -> OrderedFloat_hash(v.f)
      [] v.tag = "Float64" -> OrderedFloat_hash(v.f)

InitScalar ==
    /\ schema = <<>>
    /\ data = <<>>
    /\ plan = NoPlan
    /\ phys = NoPlan
    /\ call = NoCall
    /\ iter = NoIter
    /\ emitted = <<>>

\* u == v and the comparisons around it, with the hashes of u and v
ScalarEq(u, v, w) ==
    /\ call.op = "none"
    /\ call' = [op |-> "eq", u |-> u, v |-> v, w |-> w,
                uu |-> ScalarValue_eq(u, u),
                uv |-> ScalarValue_eq(u, v),
                vu |-> ScalarValue_eq(v, u),
                vw |-> ScalarValue_eq(v, w),
                uw |-> ScalarValue_eq(u, w),
                hash_u |-> ScalarValue_hash(u),
                hash_v |-> ScalarValue_hash(v)]
    /\ UNCHANGED <<schema, data, plan, phys, iter, emitted>>

NextScalar ==
    \/ \E u, v, w \in ScalarValues : ScalarEq(u, v, w)
    \/ Return

SpecScalar == InitScalar /\ [][NextScalar]_vars

\* C21: ScalarValue equality is reflexive (NaN == NaN included), symmetric
\* and transitive; values of different tags are never equal; two values
\* that are equal write the same to the hasher.
C21_EqAndHash ==
    call.op = "eq" =>
        /\ call.uu
        /\ call.uv <=> call.vu
        /\ (call.uv /\ call.vw) => call.uw
        /\ call.u.tag # call.v.tag => ~call.uv
        /\ call.uv => call.hash_u = call.hash_v

\* two NaNs of different bits, and the two zeros: equal, with one hash
C21_Witness ==
    /\ call.op = "eq"
    /\ call.u.tag = "Float64"
    /\ call.v.tag = "Float64"
    /\ call.w.tag = "Float64"
    /\ call.u.f.nan
    /\ call.v.f.nan
    /\ call.u.f # call.v.f
    /\ call.uv
    /\ call.w.f.tenths = 0
    /\ call.w.f.negative
    /\ call.hash_u = call.hash_v

(***************************************************************************)
(* The caller of a ProjectionExec over a ScanExec: execute(), next() on    *)
(* the sequence, and dropping the sequence before its end.                 *)
(***************************************************************************)
\* the caller drops the sequence, and with it the input's sequence it owns
DropSequence ==
    /\ iter.kind = "map"
    /\ iter.st = "Running"
    /\ iter' = [iter EXCEPT !.st = "Dropped"]
    /\ UNCHANGED <<schema, data, plan, phys, call, emitted>>

NextPull ==
    \/ ExecuteProjection
    \/ PullProjection
    \/ DropSequence

SpecPull == InitProjection /\ [][NextPull]_vars

\* the batches pulled from the input's sequence are those the caller's
\* pulls asked for: one per batch the caller got, and the one whose
\* evaluation ended the caller
PulledAsAsked ==
    iter.kind = "map" =>
        /\ iter.input.pos = Len(emitted) + (IF iter.st = "Panic" THEN 1 ELSE 0)
        /\ iter.input.pos <= Len(data)

\* a step pulls at most one batch from the input, and none once the
\* sequence is dropped or has ended; execute() gives a sequence that has
\* pulled nothing
PullStep ==
    \/ /\ call'.op = "execute"
       /\ iter'.kind = "map"
       /\ iter'.st = "Running"
       /\ iter'.input.pos = 0
       /\ emitted' = <<>>
    \/ /\ iter.kind = "map"
       /\ iter.st = "Running"
       /\ iter'.kind = "map"
       /\ iter'.input.pos \in {iter.input.pos, iter.input.pos + 1}
       /\ Len(emitted') <= Len(emitted) + (iter'.input.pos - iter.input.pos)
       /\ iter'.input.pos = iter.input.pos => iter'.st \in {"Done", "Dropped"}

\* C22: execution is pull-driven without look-ahead: execute() on a
\* ProjectionExec over a scan pulls no batch; when the caller has pulled k
\* batches, k batches have been pulled from the input's sequence; once the
\* caller has dropped the sequence no batch is pulled any more.
C22_PullDriven == []PulledAsAsked /\ [][PullStep]_vars

\* a sequence dropped after one of two batches
C22_Witness ==
    /\ iter.kind = "map"
    /\ iter.st = "Dropped"
    /\ Len(data) = 2
    /\ Len(emitted) = 1
    /\ iter.input.pos = 1

(***************************************************************************)
(* Executing an operator again.  The operators and the source are objects  *)
(* the calls could write to: next() on a sequence gives, besides the batch *)
(* and the sequence after it, the source and the operator as the call      *)
(* leaves them, and the caller's step stores them.  The caller keeps the   *)
(* batches of the first sequence, and the source and operator as they were *)
(* at the first call, and compares every later sequence with them.         *)
(***************************************************************************)
\* the source as one object
Source == [schema |-> schema, data |-> data]

\* next() on a sequence that takes the stored batches out of the source
\* as it gives them (self.data.drain(..) in place of self.data.iter())
scan_next_draining(it, source) ==
    IF Len(source.data) > 0
    THEN [iter |-> [it EXCEPT !.pos = @ + 1],
          out |-> <<scan_batch(source.schema, it.projection_indices, Head(source.data))>>,
          source |-> [source EXCEPT !.data = Tail(@)]]
    ELSE [iter |-> [it EXCEPT !.done = TRUE], out |-> <<>>, source |-> source]

\* next() on the sequence of a scan, self.data.iter().map(closure): the
\* stored batch at the position is read through a shared reference and its
\* columns are cloned into the new batch; the source keeps what it holds
scan_next(it, source) ==
    IF it.pos < Len(source.data)
    THEN [iter |-> [it EXCEPT !.pos = @ + 1],
          out |-> <<scan_batch(source.schema, it.projection_indices, source.data[it.pos + 1])>>,
          source |-> source]
    ELSE [iter |-> [it EXCEPT !.done = TRUE], out |-> <<>>, source |-> source]

\* next() on the sequence of a projection over a scan, input.map(closure):
\* the closure reads self.expr and self.schema through a shared reference
projection_next(op, it, source) ==
    LET input == scan_next(it.input, source)
    IN  IF input.out = <<>>
        THEN [iter |-> [it EXCEPT !.input = input.iter, !.st = "Done"], out |-> <<>>,
              source |-> input.source, operator |-> op]
        ELSE LET r == projection_batch(op, input.out[1])
             IN  IF r.st = "Ok"
                 THEN [iter |-> [it EXCEPT !.input = input.iter], out |-> <<r.batch>>,
                       source |-> input.source, operator |-> op]
                 ELSE [iter |-> [it EXCEPT !.input = input.iter, !.st = r.st], out |-> <<>>,
                       source |-> input.source, operator |-> op]

\* how a sequence has ended, "" while it can be pulled from
EndOf(it) ==
    CASE it.kind = "scan" -> IF it.done THEN "Done" ELSE ""
      [] it.kind = "map" -> IF it.st = "Running" THEN "" ELSE it.st
      [] OTHER -> ""

\* the sources the operators are executed over
AgainSchemas ==
    {<<Field("a", "Int32")>>,
     <<Field("a", "Int32"), Field("b", "Int32")>>,
     <<Field("b", "Utf8"), Field("a", "Int32")>>}

InitAgain ==
    /\ schema \in AgainSchemas
    /\ data \in DataFor(schema)
    /\ plan = NoPlan
    /\ phys \in {ScanExec(p) : p \in ExecProjections} \cup ProjectionExecs
    /\ call = NoCall
    /\ iter = NoIter
    /\ emitted = <<>>

\* op.execute(): a new sequence; an earlier one is dropped where it is.  At
\* the first call the caller notes the source and the operator, and the
\* first call's sequence is the one whose batches it records.
ExecuteAgain ==
    /\ iter' = IF phys.kind = "ScanExec" THEN ScanExec_execute(phys)
               ELSE ProjectionExec_execute(phys).iter
    /\ emitted' = <<>>
    /\ call' = IF call.op = "none"
               THEN [op |-> "execute", later |-> FALSE, first |-> <<>>, first_end |-> "",
                     source |-> Source, operator |-> phys]
               ELSE [call EXCEPT !.later = TRUE]
    /\ UNCHANGED <<schema, data, plan, phys>>

\* next() on the current sequence; the source and the operator are as the
\* call leaves them
PullAgain ==
    /\ iter.kind \in {"scan", "map"}
    /\ EndOf(iter) = ""
    /\ LET r == IF iter.kind = "scan" THEN scan_next(iter, Source)
                ELSE projection_next(phys, iter, Source)
       IN  /\ iter' = r.iter
           /\ emitted' = emitted \o r.out
           /\ schema' = r.source.schema
           /\ data' = r.source.data
           /\ phys' = IF iter.kind = "scan" THEN phys ELSE r.operator
           /\ call' = IF call.later THEN call
                      ELSE [call EXCEPT !.first = emitted \o r.out, !.first_end = EndOf(r.iter)]
    /\ UNCHANGED plan

NextAgain ==
    \/ ExecuteAgain
    \/ PullAgain

SpecAgain == InitAgain /\ [][NextAgain]_vars

\* what the operator makes of the first batch the source stored when the
\* operator was first executed: the batch, or the panic of the closure
FirstBatch ==
    LET op == call.operator
        b == scan_batch(call.source.schema,
                        projection_indices(call.source.schema,
                            IF op.kind = "ScanExec" THEN op.projection
                            ELSE op.input.projection),
                        call.source.data[1])
        columns == [i \in 1..Len(op.expr) |-> evaluate(op.expr[i], b)]
    IN  IF op.kind = "ScanExec" THEN OkBatch(b)
        ELSE IF \A i \in 1..Len(columns) : columns[i].st = "Ok"
        THEN OkBatch(RecordBatch(op.schema, [i \in 1..Len(columns) |-> columns[i].column]))
        ELSE Panic

\* every sequence starts at the first batch
StartsAtFirst == Len(emitted) > 0 => OkBatch(emitted[1]) = FirstBatch

\* a later sequence gives what the first one gave, batch for batch, as far
\* as both were pulled, and where both ended they gave the same batches and
\* ended the same way; neither ends before the other's last batch
SameAsFirst ==
    call.later =>
        /\ \A k \in 1..Len(emitted) : k <= Len(call.first) => emitted[k] = call.first[k]
        /\ (call.first_end # "" /\ EndOf(iter) # "") =>
               /\ emitted = call.first
               /\ EndOf(iter) = call.first_end
        /\ call.first_end # "" => Len(emitted) <= Len(call.first)
        /\ EndOf(iter) # "" => Len(call.first) <= Len(emitted)

\* the source and the operator are what they were at the first call
AsAtFirstCall == Source = call.source /\ phys = call.operator

\* no step changes the operator or the source
SourceUnchanged == phys' = phys /\ schema' = schema /\ data' = data

\* C23: execute() and scan() neither consume nor change the operator or
\* the source: a later call, after earlier sequences were pulled from to the
\* end or in part, gives a new sequence that starts at the first batch and
\* gives the batches of the first call in their order.
C23_ExecuteAgain ==
    /\ [](call.op = "execute" => (StartsAtFirst /\ SameAsFirst /\ AsAtFirstCall))
    /\ [][SourceUnchanged]_vars

\* a later sequence of a projection at its end, two batches as the first
C23_Witness ==
    /\ call.op = "execute"
    /\ call.later
    /\ phys.kind = "ProjectionExec"
    /\ Len(phys.expr) = 2
    /\ EndOf(iter) = "Done"
    /\ call.first_end = "Done"
    /\ Len(emitted) = 2
    /\ size(emitted[1].fields[1]) = 2
    /\ emitted = call.first

(***************************************************************************)
(* The schema() of the physical operators, against the schema() of the     *)
(* logical plans they are lowered from.                                    *)
(***************************************************************************)
\* PhysicalPlan::schema: ScanExec selects the projection from the source's
\* schema, ProjectionExec and HashExec return the schema they store,
\* SelectionExec returns its input's
RECURSIVE PhysicalPlan_schema(_)
PhysicalPlan_schema(op) ==
    CASE op.kind = "ScanExec" -> ScanExec_schema(op)
      [] op.kind = "ProjectionExec" -> OkSchema(op.schema)
      [] op.kind = "SelectionExec" -> PhysicalPlan_schema(op.input)
      [] op.kind = "HashExec" -> OkSchema(op.schema)

\* the logical plan and the operator lowered from it have one schema, and
\* so have their children, pair by pair
RECURSIVE SchemasAgree(_, _)
SchemasAgree(p, op) ==
    /\ PhysicalPlan_schema(op) = Plan_schema(schema, p)
    /\ p.kind # "Scan" => SchemasAgree(p.input, op.input)

\* C24: for every logical plan whose lowering succeeds, a Scan with an
\* empty projection included, the physical operator's schema() equals the
\* plan's schema(), and so for every pair of corresponding children.
C24_LoweringPreservesSchema ==
    (/\ call.op = "create_physical_plan"
     /\ call.ret.st = "Ok"
     /\ plan.kind \in {"Scan", "Projection", "Selection"}) =>
        SchemasAgree(plan, call.ret.plan)

====
